---- MODULE Spec2Model ----
(***************************************************************************)
(* Candlestick pattern engine of the stock screener                        *)
(* (src/candlestick_patterns.py): the eight classifiers, check_confirmation*)
(* and scan_patterns_last_7days, driven by a price series that grows one    *)
(* bar a day and is rescanned.                                             *)
(*                                                                         *)
(* Prices are Python floats (IEEE doubles).  A price of t tenths, held as   *)
(* the double nearest t/10, is carried as the integer  t * 1024 + e  where  *)
(* e is the double's representation error in fifths of an ulp (see Dbl).   *)
(* Sums, differences and integer multiples of such numbers are exact on    *)
(* the price range used here, so every comparison of the source is decided *)
(* as the double arithmetic decides it.                                    *)
(***************************************************************************)
EXTENDS Integers, Sequences, FiniteSets, TLC

VARIABLES opens, highs, lows, closes, volumes, atr, dates, pc, patterns, trace

vars == <<opens, highs, lows, closes, volumes, atr, dates, pc, patterns, trace>>

(* ------------------------------------------------------------------ *)
(* Bounds                                                             *)
(* ------------------------------------------------------------------ *)

\* Longest series the daily append builds.
MaxLen == 8

(* ------------------------------------------------------------------ *)
(* Floats                                                             *)
(* ------------------------------------------------------------------ *)

\* Representation error of the double nearest t/10, for 64 <= t/10 < 128,
\* in fifths of an ulp (ulp = 2^-46): 5 * round(t * 2^45 / 5) - t * 2^45,
\* and 2^45 mod 5 = 2.
E5(t) ==
    LET r == (2 * t) % 5
    IN  CASE r = 0 -> 0
          [] r = 1 -> -1
          [] r = 2 -> -2
          [] r = 3 -> 2
          [] r = 4 -> 1

\* The float a price of t tenths becomes.  Multiples of 0.5 are exact in
\* every binade; the other prices of the model lie in [64, 128).
Dbl(t) == t * 1024 + (IF t % 5 = 0 THEN 0 ELSE E5(t))

Abs(x) == IF x < 0 THEN -x ELSE x
Max2(a, b) == IF a > b THEN a ELSE b
Min2(a, b) == IF a < b THEN a ELSE b

\* Python's round(): a / b rounded to the nearest integer, ties to even (b > 0).
RoundHalfEven(a, b) ==
    LET q == a \div b
        r == a % b
    IN  IF 2 * r > b THEN q + 1
        ELSE IF 2 * r < b THEN q
        ELSE IF q % 2 = 0 THEN q ELSE q + 1

\* 0-based indexing of the source's lists.
At(s, i) == s[i + 1]

(* ------------------------------------------------------------------ *)
(* Candle geometry                                                    *)
(* ------------------------------------------------------------------ *)

calculate_body_size(open_price, close_price) == Abs(close_price - open_price)

calculate_upper_shadow(high, open_price, close_price) ==
    high - Max2(open_price, close_price)

\* Faulty variant: the lower shadow measured from the top of the body.
calculate_lower_shadow_from_top(low, open_price, close_price) ==
    Max2(open_price, close_price) - low

calculate_lower_shadow(low, open_price, close_price) ==
    Min2(open_price, close_price) - low

is_bullish_candle(open_price, close_price) == close_price > open_price

is_bearish_candle(open_price, close_price) == close_price < open_price

(* ------------------------------------------------------------------ *)
(* Classifier results                                                 *)
(* ------------------------------------------------------------------ *)

\* A classifier returns None, a {pattern, signal, confidence} dict, or raises.
NoPattern == [pattern |-> "none", signal |-> "none", confidence |-> 0]
Raised == [pattern |-> "raise", signal |-> "none", confidence |-> 0]
Found(p, s, c) == [pattern |-> p, signal |-> s, confidence |-> c]

\* Faulty variant: only "atr is None" is tested, a zero ATR is let through.
AtrIsNone(a) == a = <<>>

\* atr is <<>> for None and <<a>> for the float a.
AtrMissing(a) == a = <<>> \/ a[1] = 0

\* x / y >= 0.7 for y # 0.
RatioAtLeast7(x, y) == IF y > 0 THEN 10 * x >= 7 * y ELSE 10 * x <= 7 * y

\* x / y > 0.2 for y > 0.
RatioAbove2(x, y) == 10 * x > 2 * y

\* round(min(95, 60 + (shadow / body) * 10), 0); body = 0 raises ZeroDivisionError.
ShadowConfidence(shadow, body) ==
    IF body = 0 THEN Raised
    ELSE [pattern |-> "ok", signal |-> "none",
          confidence |-> Min2(95, 60 + RoundHalfEven(10 * shadow, body))]

\* Faulty variant: no "total_range == 0" test, so a zero range reaches the
\* division by total_range.
detect_hammer_no_range_test(idx, o, h, l, c, a) ==
    IF idx >= Len(o) THEN NoPattern
    ELSE
    LET open_p == At(o, idx)
        high == At(h, idx)
        low == At(l, idx)
        close == At(c, idx)
        body == calculate_body_size(open_p, close)
        lower_shadow == calculate_lower_shadow(low, open_p, close)
        upper_shadow == calculate_upper_shadow(high, open_p, close)
        total_range == high - low
    IN  IF AtrMissing(a) THEN NoPattern
        ELSE IF /\ lower_shadow >= 2 * body
                /\ 10 * upper_shadow <= body
                /\ 10 * body >= 3 * a[1]
             THEN IF total_range = 0 THEN Raised
                  ELSE IF RatioAtLeast7(Max2(open_p, close) - low, total_range)
                  THEN LET conf == ShadowConfidence(lower_shadow, body)
                       IN  IF conf = Raised THEN Raised
                           ELSE Found("hammer", "bullish", conf.confidence)
                  ELSE NoPattern
             ELSE NoPattern

detect_hammer(idx, o, h, l, c, a) ==
    IF idx >= Len(o) THEN NoPattern
    ELSE
    LET open_p == At(o, idx)
        high == At(h, idx)
        low == At(l, idx)
        close == At(c, idx)
        body == calculate_body_size(open_p, close)
        lower_shadow == calculate_lower_shadow(low, open_p, close)
        upper_shadow == calculate_upper_shadow(high, open_p, close)
        total_range == high - low
    IN  IF total_range = 0 \/ AtrMissing(a) THEN NoPattern
        ELSE IF /\ lower_shadow >= 2 * body
                /\ 10 * upper_shadow <= body
                /\ 10 * body >= 3 * a[1]
                /\ RatioAtLeast7(Max2(open_p, close) - low, total_range)
             THEN LET conf == ShadowConfidence(lower_shadow, body)
                  IN  IF conf = Raised THEN Raised
                      ELSE Found("hammer", "bullish", conf.confidence)
             ELSE NoPattern

detect_shooting_star(idx, o, h, l, c, a) ==
    IF idx >= Len(o) THEN NoPattern
    ELSE
    LET open_p == At(o, idx)
        high == At(h, idx)
        low == At(l, idx)
        close == At(c, idx)
        body == calculate_body_size(open_p, close)
        lower_shadow == calculate_lower_shadow(low, open_p, close)
        upper_shadow == calculate_upper_shadow(high, open_p, close)
        total_range == high - low
    IN  IF total_range = 0 \/ AtrMissing(a) THEN NoPattern
        ELSE IF /\ upper_shadow >= 2 * body
                /\ 10 * lower_shadow <= body
                /\ 10 * body >= 3 * a[1]
                /\ RatioAtLeast7(high - Min2(open_p, close), total_range)
             THEN LET conf == ShadowConfidence(upper_shadow, body)
                  IN  IF conf = Raised THEN Raised
                      ELSE Found("shooting_star", "bearish", conf.confidence)
             ELSE NoPattern

\* volume_boost of the engulfing classifiers.
VolumeBoost(idx, v) ==
    IF idx < Len(v) /\ idx - 1 < Len(v) /\ At(v, idx) > At(v, idx - 1) THEN 10 ELSE 0

\* Faulty variant: the second day must open above the previous close.
detect_bullish_engulfing_gap_up(idx, o, h, l, c, v, a) ==
    IF idx < 1 \/ idx >= Len(o) THEN NoPattern
    ELSE
    LET open1 == At(o, idx - 1)
        close1 == At(c, idx - 1)
        open2 == At(o, idx)
        close2 == At(c, idx)
    IN  IF /\ is_bearish_candle(open1, close1)
           /\ is_bullish_candle(open2, close2)
           /\ open2 > close1
           /\ close2 > open1
        THEN Found("bullish_engulfing", "bullish", Min2(95, 70 + VolumeBoost(idx, v)))
        ELSE NoPattern

\* Faulty variant: the first day need not be bearish.
detect_bullish_engulfing_any_first_day(idx, o, h, l, c, v, a) ==
    IF idx < 1 \/ idx >= Len(o) THEN NoPattern
    ELSE IF /\ is_bullish_candle(At(o, idx), At(c, idx))
            /\ At(o, idx) < At(c, idx - 1)
            /\ At(c, idx) > At(o, idx - 1)
    THEN Found("bullish_engulfing", "bullish", Min2(95, 70 + VolumeBoost(idx, v)))
    ELSE NoPattern

detect_bullish_engulfing(idx, o, h, l, c, v, a) ==
    IF idx < 1 \/ idx >= Len(o) THEN NoPattern
    ELSE
    LET open1 == At(o, idx - 1)
        close1 == At(c, idx - 1)
        open2 == At(o, idx)
        close2 == At(c, idx)
    IN  IF /\ is_bearish_candle(open1, close1)
           /\ is_bullish_candle(open2, close2)
           /\ open2 < close1
           /\ close2 > open1
        THEN Found("bullish_engulfing", "bullish", Min2(95, 70 + VolumeBoost(idx, v)))
        ELSE NoPattern

detect_bearish_engulfing(idx, o, h, l, c, v, a) ==
    IF idx < 1 \/ idx >= Len(o) THEN NoPattern
    ELSE
    LET open1 == At(o, idx - 1)
        close1 == At(c, idx - 1)
        open2 == At(o, idx)
        close2 == At(c, idx)
    IN  IF /\ is_bullish_candle(open1, close1)
           /\ is_bearish_candle(open2, close2)
           /\ open2 > close1
           /\ close2 < open1
        THEN Found("bearish_engulfing", "bearish", Min2(95, 70 + VolumeBoost(idx, v)))
        ELSE NoPattern

detect_morning_star(idx, o, h, l, c, a) ==
    IF idx < 2 \/ idx >= Len(o) THEN NoPattern
    ELSE
    LET open1 == At(o, idx - 2)
        close1 == At(c, idx - 2)
        body1 == calculate_body_size(open1, close1)
        open2 == At(o, idx - 1)
        close2 == At(c, idx - 1)
        body2 == calculate_body_size(open2, close2)
        open3 == At(o, idx)
        close3 == At(c, idx)
        body3 == calculate_body_size(open3, close3)
    IN  IF AtrMissing(a) THEN NoPattern
        ELSE IF /\ is_bearish_candle(open1, close1)
                /\ 10 * body1 > 7 * a[1]
                /\ 10 * body2 < 3 * body1
                /\ Max2(open2, close2) < close1
                /\ is_bullish_candle(open3, close3)
                /\ 10 * body3 > 7 * a[1]
                /\ 2 * close3 > open1 + close1
             THEN Found("morning_star", "bullish", 75)
             ELSE NoPattern

detect_evening_star(idx, o, h, l, c, a) ==
    IF idx < 2 \/ idx >= Len(o) THEN NoPattern
    ELSE
    LET open1 == At(o, idx - 2)
        close1 == At(c, idx - 2)
        body1 == calculate_body_size(open1, close1)
        open2 == At(o, idx - 1)
        close2 == At(c, idx - 1)
        body2 == calculate_body_size(open2, close2)
        open3 == At(o, idx)
        close3 == At(c, idx)
        body3 == calculate_body_size(open3, close3)
    IN  IF AtrMissing(a) THEN NoPattern
        ELSE IF /\ is_bullish_candle(open1, close1)
                /\ 10 * body1 > 7 * a[1]
                /\ 10 * body2 < 3 * body1
                /\ Min2(open2, close2) > close1
                /\ is_bearish_candle(open3, close3)
                /\ 10 * body3 > 7 * a[1]
                /\ 2 * close3 < open1 + close1
             THEN Found("evening_star", "bearish", 75)
             ELSE NoPattern

detect_three_white_soldiers(idx, o, h, l, c, a) ==
    IF idx < 2 \/ idx >= Len(o) THEN NoPattern
    ELSE IF \E i \in (idx - 2)..idx :
               \/ ~is_bullish_candle(At(o, i), At(c, i))
               \/ /\ At(h, i) - At(l, i) > 0
                  /\ RatioAbove2(calculate_upper_shadow(At(h, i), At(o, i), At(c, i)),
                                 At(h, i) - At(l, i))
         THEN NoPattern
    ELSE IF \E i \in 1..2 :
               LET prev_idx == idx - 3 + i
                   curr_idx == idx - 3 + i + 1
               IN  At(o, curr_idx) <= At(o, prev_idx) \/ At(o, curr_idx) >= At(c, prev_idx)
         THEN NoPattern
    ELSE IF ~(At(h, idx - 2) < At(h, idx - 1) /\ At(h, idx - 1) < At(h, idx))
         THEN NoPattern
    ELSE Found("three_white_soldiers", "bullish", 80)

detect_three_black_crows(idx, o, h, l, c, a) ==
    IF idx < 2 \/ idx >= Len(o) THEN NoPattern
    ELSE IF \E i \in (idx - 2)..idx :
               \/ ~is_bearish_candle(At(o, i), At(c, i))
               \/ /\ At(h, i) - At(l, i) > 0
                  /\ RatioAbove2(calculate_lower_shadow(At(l, i), At(o, i), At(c, i)),
                                 At(h, i) - At(l, i))
         THEN NoPattern
    ELSE IF \E i \in 1..2 :
               LET prev_idx == idx - 3 + i
                   curr_idx == idx - 3 + i + 1
               IN  At(o, curr_idx) >= At(o, prev_idx) \/ At(o, curr_idx) <= At(c, prev_idx)
         THEN NoPattern
    ELSE IF ~(At(l, idx - 2) > At(l, idx - 1) /\ At(l, idx - 1) > At(l, idx))
         THEN NoPattern
    ELSE Found("three_black_crows", "bearish", 80)

(* ------------------------------------------------------------------ *)
(* Confirmation                                                       *)
(* ------------------------------------------------------------------ *)

\* Faulty variant: a next close equal to the high (low) already confirms.
check_confirmation_inclusive(pattern_signal, pattern_idx, h, l, c) ==
    IF pattern_idx >= Len(c) - 1 THEN "pending"
    ELSE LET next_close == At(c, pattern_idx + 1)
         IN  IF pattern_signal = "bullish"
             THEN (IF next_close >= At(h, pattern_idx) THEN "confirmed" ELSE "pending")
             ELSE (IF next_close <= At(l, pattern_idx) THEN "confirmed" ELSE "pending")

\* Faulty variant: the last close of the series is taken for the next close.
check_confirmation_by_last_close(pattern_signal, pattern_idx, h, l, c) ==
    IF pattern_idx >= Len(c) - 1 THEN "pending"
    ELSE LET next_close == At(c, Len(c) - 1)
         IN  IF pattern_signal = "bullish"
             THEN (IF next_close > At(h, pattern_idx) THEN "confirmed" ELSE "pending")
             ELSE (IF next_close < At(l, pattern_idx) THEN "confirmed" ELSE "pending")

check_confirmation(pattern_signal, pattern_idx, h, l, c) ==
    IF pattern_idx >= Len(c) - 1 THEN "pending"
    ELSE LET next_close == At(c, pattern_idx + 1)
         IN  IF pattern_signal = "bullish"
             THEN (IF next_close > At(h, pattern_idx) THEN "confirmed" ELSE "pending")
             ELSE (IF next_close < At(l, pattern_idx) THEN "confirmed" ELSE "pending")

(* ------------------------------------------------------------------ *)
(* Dates                                                              *)
(* ------------------------------------------------------------------ *)

\* A 'YYYY-MM-DD' string is the tuple of its three zero-padded fields, the
\* empty string is <<>>; Python compares strings lexicographically.
EmptyStr == <<>>

RECURSIVE StrLess(_, _)
StrLess(s, t) ==
    IF t = <<>> THEN FALSE
    ELSE IF s = <<>> THEN TRUE
    ELSE IF Head(s) # Head(t) THEN Head(s) < Head(t)
    ELSE StrLess(Tail(s), Tail(t))

IsLeap(y) == (y % 4 = 0 /\ y % 100 # 0) \/ y % 400 = 0

DaysInMonth(y, m) ==
    IF m = 2 THEN (IF IsLeap(y) THEN 29 ELSE 28)
    ELSE IF m \in {4, 6, 9, 11} THEN 30 ELSE 31

RECURSIVE DaysBeforeMonth(_, _)
DaysBeforeMonth(y, m) ==
    IF m <= 1 THEN 0 ELSE DaysBeforeMonth(y, m - 1) + DaysInMonth(y, m - 1)

\* datetime.strptime(s, '%Y-%m-%d') succeeds.
Parses(s) ==
    /\ Len(s) = 3
    /\ s[1] >= 1
    /\ s[2] \in 1..12
    /\ s[3] \in 1..DaysInMonth(s[1], s[2])

\* Faulty variant: every year has 365 days.
OrdinalNoLeap(s) ==
    (s[1] - 1) * 365 + DaysBeforeMonth(2023, s[2]) + s[3]

\* Day number (datetime.toordinal) of a parsed date.
Ordinal(s) ==
    LET y == s[1] - 1
    IN  y * 365 + (y \div 4) - (y \div 100) + (y \div 400)
          + DaysBeforeMonth(s[1], s[2]) + s[3]

calculate_days_ago(pattern_date, ds) ==
    IF ds = <<>> THEN 0
    ELSE LET last_date == ds[Len(ds)]
         IN  IF Parses(pattern_date) /\ Parses(last_date)
             THEN Max2(0, Ordinal(last_date) - Ordinal(pattern_date))
             ELSE 0

(* ------------------------------------------------------------------ *)
(* The scanner                                                        *)
(* ------------------------------------------------------------------ *)

\* Faulty variant: the first result that is not None is kept.
RECURSIVE FirstFired(_)
FirstFired(results) ==
    IF results = <<>> THEN NoPattern
    ELSE IF Head(results) # NoPattern THEN Head(results)
    ELSE FirstFired(Tail(results))

\* "if x: detected = x", applied to the classifiers' results in call order:
\* the last result that is not None.
RECURSIVE LastFired(_)
LastFired(results) ==
    IF results = <<>> THEN NoPattern
    ELSE IF results[Len(results)] # NoPattern THEN results[Len(results)]
    ELSE LastFired(SubSeq(results, 1, Len(results) - 1))

\* The classifiers' results at idx in call order; the two-candle ones are
\* called only when idx >= 1 and the three-candle ones only when idx >= 2.
Calls(idx, o, h, l, c, v, a) ==
    <<detect_hammer(idx, o, h, l, c, a),
      detect_shooting_star(idx, o, h, l, c, a),
      IF idx >= 1 THEN detect_bullish_engulfing(idx, o, h, l, c, v, a) ELSE NoPattern,
      IF idx >= 1 THEN detect_bearish_engulfing(idx, o, h, l, c, v, a) ELSE NoPattern,
      IF idx >= 2 THEN detect_morning_star(idx, o, h, l, c, a) ELSE NoPattern,
      IF idx >= 2 THEN detect_evening_star(idx, o, h, l, c, a) ELSE NoPattern,
      IF idx >= 2 THEN detect_three_white_soldiers(idx, o, h, l, c, a) ELSE NoPattern,
      IF idx >= 2 THEN detect_three_black_crows(idx, o, h, l, c, a) ELSE NoPattern>>

\* The record appended for the pattern detected at idx.
PatternRecord(idx, detected, status, ds) ==
    LET pattern_date == IF idx < Len(ds) THEN At(ds, idx) ELSE EmptyStr
    IN  [date |-> pattern_date,
         days_ago |-> calculate_days_ago(pattern_date, ds),
         pattern |-> detected.pattern,
         signal |-> detected.signal,
         confidence |-> detected.confidence,
         status |-> status]

\* One iteration of the loop over idx: the locals it leaves behind.
Iteration(idx, o, h, l, c, v, a, ds) ==
    LET calls == Calls(idx, o, h, l, c, v, a)
        raises == \E k \in 1..Len(calls) : calls[k] = Raised
        detected == LastFired(calls)
        status == IF detected = NoPattern THEN "none"
                  ELSE check_confirmation(detected.signal, idx, h, l, c)
    IN  [idx |-> idx, calls |-> calls, raises |-> raises,
         detected |-> detected, status |-> status,
         appended |-> IF ~raises /\ detected # NoPattern
                         /\ status \in {"confirmed", "pending"}
                      THEN <<PatternRecord(idx, detected, status, ds)>>
                      ELSE <<>>]

\* list.sort(key=date): stable, ascending.
RECURSIVE InsertByDate(_, _)
InsertByDate(sorted, x) ==
    IF sorted = <<>> THEN <<x>>
    ELSE IF StrLess(x.date, Head(sorted).date) THEN <<x>> \o sorted
    ELSE <<Head(sorted)>> \o InsertByDate(Tail(sorted), x)

\* Faulty variant: the list is returned in the order of appending.
Unsorted(ps) == ps

RECURSIVE SortByDate(_)
SortByDate(ps) ==
    IF ps = <<>> THEN <<>>
    ELSE InsertByDate(SortByDate(SubSeq(ps, 1, Len(ps) - 1)), ps[Len(ps)])

\* First index the scanner evaluates.
StartIdx(o) == Max2(0, Len(o) - 7)

\* The loop from idx on: the iterations run (it stops at the first that raises).
RECURSIVE ScanLoop(_, _, _, _, _, _, _, _)
ScanLoop(idx, o, h, l, c, v, a, ds) ==
    IF idx >= Len(o) THEN <<>>
    ELSE LET it == Iteration(idx, o, h, l, c, v, a, ds)
         IN  IF it.raises THEN <<it>>
             ELSE <<it>> \o ScanLoop(idx + 1, o, h, l, c, v, a, ds)

RECURSIVE Appended(_)
Appended(its) ==
    IF its = <<>> THEN <<>> ELSE Head(its).appended \o Appended(Tail(its))

\* Faulty variant: 7 candles are taken to be enough.
scan_patterns_seven_candles(o, h, l, c, v, a, ds) ==
    IF Len(o) < 7 THEN [trace |-> <<>>, raised |-> FALSE, patterns |-> <<>>]
    ELSE LET its == ScanLoop(StartIdx(o), o, h, l, c, v, a, ds)
             raised == its # <<>> /\ its[Len(its)].raises
         IN  [trace |-> its, raised |-> raised,
              patterns |-> IF raised THEN <<>> ELSE SortByDate(Appended(its))]

\* scan_patterns_last_7days: the iterations run, whether one raised, and the
\* list returned.
scan_patterns_last_7days(o, h, l, c, v, a, ds) ==
    IF Len(o) < 8 THEN [trace |-> <<>>, raised |-> FALSE, patterns |-> <<>>]
    ELSE LET its == ScanLoop(StartIdx(o), o, h, l, c, v, a, ds)
             raised == its # <<>> /\ its[Len(its)].raises
         IN  [trace |-> its, raised |-> raised,
              patterns |-> IF raised THEN <<>> ELSE SortByDate(Appended(its))]

(* ------------------------------------------------------------------ *)
(* Inputs                                                             *)
(* ------------------------------------------------------------------ *)

Candle(o, h, l, c, v) == [o |-> Dbl(o), h |-> Dbl(h), l |-> Dbl(l), c |-> Dbl(c), v |-> v]

\* Bars in tenths of a dollar: open, high, low, close, volume.
Flat         == Candle(1000, 1000, 1000, 1000, 1)
HammerBar    == Candle(1000, 1020,  940, 1020, 2)
HammerSpec   == Candle(1000, 1022,  940, 1020, 2)
Dragonfly    == Candle(1000, 1000,  940, 1000, 1)
StarBar      == Candle(1020, 1080, 1000, 1000, 2)
LongBear     == Candle(1100, 1100, 1000, 1000, 3)
SmallBear    == Candle( 990,  990,  980,  980, 1)
BigBull      == Candle( 970, 1080,  970, 1080, 2)
UpBar        == Candle(1080, 1120,  960, 1120, 1)
LongBull     == Candle(1000, 1100, 1000, 1100, 3)
SmallBull    == Candle(1110, 1120, 1110, 1120, 1)
BigBear      == Candle(1130, 1130, 1020, 1020, 2)
ThirdCrow    == Candle(1020, 1020,  960,  960, 2)

\* The bars a new day can bring.
Bars == {HammerBar, HammerSpec, Dragonfly, StarBar, LongBear, SmallBear,
         BigBull, UpBar, LongBull, SmallBull, BigBear, ThirdCrow}

\* The history the series starts with.
History == <<Flat, Flat, Flat, Flat, LongBear>>

\* ATR(14) and date list as the caller supplies them: the ATR is None, 0, a
\* negative number or 5.0; the date list is as long as the series or one
\* entry short of it.
Callers ==
    {[atr |-> <<Dbl(50)>>, short |-> 0], [atr |-> <<Dbl(50)>>, short |-> 1],
     [atr |-> <<>>, short |-> 0], [atr |-> <<Dbl(0)>>, short |-> 0],
     [atr |-> <<Dbl(-10)>>, short |-> 0]}

\* The date string of the bar at index i: consecutive days from 2024-01-27.
DateOfBar(i) == IF 27 + i <= 31 THEN <<2024, 1, 27 + i>> ELSE <<2024, 2, i - 4>>

(* ------------------------------------------------------------------ *)
(* State machine                                                      *)
(* ------------------------------------------------------------------ *)

\* Construction: the history and the caller's ATR and dates; nothing scanned.
Init ==
    \E caller \in Callers :
        /\ opens = [i \in 1..Len(History) |-> History[i].o]
        /\ highs = [i \in 1..Len(History) |-> History[i].h]
        /\ lows = [i \in 1..Len(History) |-> History[i].l]
        /\ closes = [i \in 1..Len(History) |-> History[i].c]
        /\ volumes = [i \in 1..Len(History) |-> History[i].v]
        /\ atr = caller.atr
        /\ dates = [i \in 1..(Len(History) - caller.short) |-> DateOfBar(i - 1)]
        /\ pc = "ready"
        /\ patterns = <<>>
        /\ trace = <<>>

\* The day's run: the lists arrive one bar longer and
\* scan_patterns_last_7days is called on them.
Scan ==
    /\ Len(opens) < MaxLen
    /\ \E bar \in Bars :
        /\ opens' = Append(opens, bar.o)
        /\ highs' = Append(highs, bar.h)
        /\ lows' = Append(lows, bar.l)
        /\ closes' = Append(closes, bar.c)
        /\ volumes' = Append(volumes, bar.v)
    /\ dates' = Append(dates, DateOfBar(Len(dates)))
    /\ \E r \in {scan_patterns_last_7days(opens', highs', lows', closes',
                                          volumes', atr, dates')} :
        /\ pc' = IF r.raised THEN "raised" ELSE "done"
        /\ patterns' = r.patterns
        /\ trace' = r.trace
    /\ UNCHANGED atr

Next == Scan

Spec == Init /\ [][Next]_vars

(* ------------------------------------------------------------------ *)
(* Properties                                                         *)
(* ------------------------------------------------------------------ *)

\* The iterations of the last scan.
Iterations == {trace[k] : k \in 1..Len(trace)}

\* The classifiers in the order the scanner calls them.
Order == <<"hammer", "shooting_star", "bullish_engulfing", "bearish_engulfing",
           "morning_star", "evening_star", "three_white_soldiers", "three_black_crows">>

\* Positions in Order of the classifiers that fired in an iteration.
FiredAt(it) == {k \in 1..Len(Order) : it.calls[k] # NoPattern}

\* The last index of the series.
LastIdx == Len(closes) - 1

\* The next close confirms the signal of the pattern at index i.
Confirms(signal, i) ==
    \/ signal = "bullish" /\ At(closes, i + 1) > At(highs, i)
    \/ signal = "bearish" /\ At(closes, i + 1) < At(lows, i)

\* The next close moves against the signal of the pattern at index i.
MovesAgainst(signal, i) ==
    \/ signal = "bullish" /\ At(closes, i + 1) < At(lows, i)
    \/ signal = "bearish" /\ At(closes, i + 1) > At(highs, i)

\* The record the scan returned for the pattern of iteration it, if any.
RecordsOf(it) ==
    {k \in 1..Len(patterns) :
        /\ patterns[k].date = (IF it.idx < Len(dates) THEN At(dates, it.idx) ELSE EmptyStr)
        /\ patterns[k].pattern = it.detected.pattern}

\* C1: a pattern at an index that is not the last is 'confirmed' exactly when
\* the next close is above its high (bullish) or below its low (bearish) and
\* is 'pending' otherwise; a pattern at the last index is 'pending'; and the
\* record returned for it carries that status.
C1_ConfirmationRule ==
    pc = "done" =>
        \A it \in Iterations :
            it.detected # NoPattern =>
                /\ it.status = IF it.idx < LastIdx /\ Confirms(it.detected.signal, it.idx)
                               THEN "confirmed" ELSE "pending"
                /\ \A k \in RecordsOf(it) : patterns[k].status = it.status

\* C1 witness: one scan with a pattern confirmed, a pattern left pending with
\* its next bar present, and a pattern at the last index.
C1_Witness ==
    /\ pc = "done"
    /\ \E it \in Iterations : it.status = "confirmed" /\ RecordsOf(it) # {}
    /\ \E it \in Iterations : it.status = "pending" /\ it.idx < LastIdx
    /\ \E it \in Iterations : it.detected # NoPattern /\ it.idx = LastIdx

\* C2 (as claimed): a pattern whose next close moves against its signal is
\* discarded: no record of the returned list is the record of that pattern.
C2_FailedDiscarded ==
    pc = "done" =>
        \A it \in Iterations :
            (it.detected # NoPattern /\ it.idx < LastIdx
                /\ MovesAgainst(it.detected.signal, it.idx))
            => RecordsOf(it) = {}

\* C3: only the last 7 indices are evaluated, each at most once; the pattern
\* kept at an index is that of the classifier latest in Order among those that
\* fired there; the list returned holds exactly the records kept, at most 7.
C3_LastClassifierWins ==
    pc = "done" /\ Len(opens) >= 8 =>
        /\ Len(trace) = 7
        /\ \A k \in 1..Len(trace) : trace[k].idx = Len(opens) - 8 + k
        /\ \A it \in Iterations :
              /\ Len(it.appended) <= 1
              /\ IF FiredAt(it) = {} THEN it.appended = <<>>
                 ELSE LET last == CHOOSE k \in FiredAt(it) : \A j \in FiredAt(it) : j <= k
                      IN  /\ it.appended # <<>>
                          /\ it.appended[1].pattern = Order[last]
                          /\ it.appended[1].signal = it.calls[last].signal
                          /\ it.appended[1].confidence = it.calls[last].confidence
        /\ Len(patterns) = Cardinality({it \in Iterations : it.appended # <<>>})
        /\ {patterns[k] : k \in 1..Len(patterns)}
              = {it.appended[1] : it \in {x \in Iterations : x.appended # <<>>}}
        /\ Len(patterns) <= 7

\* C3 witness: a scan in which two classifiers fired at one index and the
\* series has an index the scan leaves out.
C3_Witness ==
    /\ pc = "done"
    /\ Len(opens) >= 8
    /\ \E it \in Iterations : Cardinality(FiredAt(it)) >= 2
    /\ Len(patterns) >= 2

\* The bar at index i is the given bar.
IsBar(i, bar) ==
    /\ At(opens, i) = bar.o
    /\ At(highs, i) = bar.h
    /\ At(lows, i) = bar.l
    /\ At(closes, i) = bar.c

\* Index i is a valid Bullish Engulfing: the bar before is bearish, this one is
\* bullish, opens below the previous close and closes above the previous open.
EngulfsBullish(i) ==
    /\ At(closes, i - 1) < At(opens, i - 1)
    /\ At(closes, i) > At(opens, i)
    /\ At(opens, i) < At(closes, i - 1)
    /\ At(closes, i) > At(opens, i - 1)

\* The end-to-end case: 8 candles, index 6 a valid Bullish Engulfing, the last
\* close above the high of index 6, no classifier firing at another index.
EndToEndCase ==
    /\ pc = "done"
    /\ Len(opens) = 8
    /\ EngulfsBullish(6)
    /\ At(closes, 7) > At(highs, 6)
    /\ \A it \in Iterations : it.idx # 6 => FiredAt(it) = {}

\* Morning Star fired at index i of the last scan.
MorningStarAt(i) == \E it \in Iterations : it.idx = i /\ it.calls[5] # NoPattern

\* C4 (as claimed): in the end-to-end case the scan returns exactly one
\* record, a confirmed bullish 'bullish_engulfing'.
C4_EndToEndAsClaimed ==
    EndToEndCase =>
        /\ Len(patterns) = 1
        /\ patterns[1].pattern = "bullish_engulfing"
        /\ patterns[1].signal = "bullish"
        /\ patterns[1].status = "confirmed"

\* C4 (amended): in the end-to-end case the scan returns exactly one record,
\* bullish and confirmed; its pattern is 'bullish_engulfing' unless Morning
\* Star fires at index 6 too, and then it is 'morning_star'.
C4_EndToEnd ==
    EndToEndCase =>
        /\ Len(patterns) = 1
        /\ patterns[1].pattern = IF MorningStarAt(6) THEN "morning_star"
                                 ELSE "bullish_engulfing"
        /\ patterns[1].signal = "bullish"
        /\ patterns[1].status = "confirmed"

\* C4 witness: the end-to-end case without a Morning Star at index 6.
C4_Witness == EndToEndCase /\ ~MorningStarAt(6)

\* The ATR is 5.0.
AtrIsFive == atr = <<Dbl(50)>>

\* C5 (as claimed): the candle open=100, close=102, high=102.2, low=94 with
\* ATR=5 is detected as a bullish hammer with confidence 95.
C5_HammerAsClaimed ==
    pc = "done" /\ AtrIsFive =>
        \A it \in Iterations :
            IsBar(it.idx, Candle(1000, 1022, 940, 1020, 0))
            => it.calls[1] = Found("hammer", "bullish", 95)

\* C5 (amended): with ATR=5 the candle open=100, close=102, high=102.2, low=94
\* is not detected (its upper shadow 102.2 - 102, as a double, exceeds
\* 0.1 * body), and the same candle with high=102 is detected as a bullish
\* hammer with confidence 90 (lower shadow 6, body 2).
C5_Hammer ==
    pc = "done" /\ AtrIsFive =>
        \A it \in Iterations :
            /\ IsBar(it.idx, Candle(1000, 1022, 940, 1020, 0)) => it.calls[1] = NoPattern
            /\ IsBar(it.idx, Candle(1000, 1020, 940, 1020, 0))
               => it.calls[1] = Found("hammer", "bullish", 90)

\* C5 witness: a scan with ATR=5 that met both candles.
C5_Witness ==
    /\ pc = "done"
    /\ AtrIsFive
    /\ \E it \in Iterations : IsBar(it.idx, Candle(1000, 1022, 940, 1020, 0))
    /\ \E it \in Iterations : IsBar(it.idx, Candle(1000, 1020, 940, 1020, 0))

\* The ATR is zero or None.
AtrZeroOrNone == atr = <<>> \/ atr = <<0>>

\* C6 (as claimed): with an ATR of zero or None every classifier abstains.
C6_AllAbstainAsClaimed ==
    pc = "done" /\ AtrZeroOrNone => \A it \in Iterations : FiredAt(it) = {}

\* C6 (amended): with an ATR of zero or None, Hammer, Shooting Star, Morning
\* Star and Evening Star abstain (the other four do not read the ATR).
C6_AtrClassifiersAbstain ==
    pc = "done" /\ AtrZeroOrNone =>
        \A it \in Iterations : FiredAt(it) \cap {1, 2, 5, 6} = {}

\* C6 witness: a scan with ATR zero that met a hammer-shaped bar and in which
\* a classifier that ignores the ATR fired.
C6_Witness ==
    /\ pc = "done"
    /\ atr = <<0>>
    /\ \E it \in Iterations : IsBar(it.idx, HammerBar)
    /\ \E it \in Iterations : FiredAt(it) # {}

\* C7: at a candle with high = low, Hammer, Shooting Star, Three White
\* Soldiers and Three Black Crows return nothing.
C7_ZeroRangeAbstains ==
    \A it \in Iterations :
        At(highs, it.idx) = At(lows, it.idx)
        => \A k \in {1, 2, 7, 8} : it.calls[k] = NoPattern

\* C7 witness: a scan with a usable ATR evaluated a zero-range candle.
C7_Witness ==
    /\ pc # "ready"
    /\ ~AtrZeroOrNone
    /\ \E it \in Iterations : At(highs, it.idx) = At(lows, it.idx)

\* C8 (as claimed): no classifier raises, whatever the candles and the ATR.
C8_NeverRaises ==
    /\ pc # "raised"
    /\ \A it \in Iterations : \A k \in 1..Len(it.calls) : it.calls[k] # Raised

\* C9: a series of fewer than 8 candles yields the empty list and no
\* classifier is evaluated; a series of 8 or more is scanned.
C9_NeedsEightCandles ==
    pc # "ready" =>
        IF Len(opens) < 8
        THEN pc = "done" /\ patterns = <<>> /\ trace = <<>>
        ELSE trace # <<>>

\* C9 witness: a scan of 7 candles with ATR=5 whose last candle is hammer-shaped.
C9_Witness ==
    /\ pc = "done"
    /\ Len(opens) = 7
    /\ AtrIsFive
    /\ IsBar(6, HammerBar)

\* C10: the list returned is in ascending order of the records' date strings.
C10_SortedByDate ==
    pc = "done" =>
        \A i, j \in 1..Len(patterns) :
            i < j => ~StrLess(patterns[j].date, patterns[i].date)

\* C10 witness: a scan whose records were appended out of date order.
C10_Witness ==
    /\ pc = "done"
    /\ Len(patterns) >= 2
    /\ patterns # Appended(trace)

(* ------------------------------------------------------------------ *)
(* days_ago of a record (calculate_days_ago)                          *)
(* ------------------------------------------------------------------ *)

\* Longest date list handed to calculate_days_ago.
MaxDates == 3

\* Date strings: three calendar days around the leap day of 2024,
\* '2024-02-30' (which strptime rejects) and ''.
DateStrings == {<<2023, 12, 31>>, <<2024, 2, 28>>, <<2024, 3, 1>>, <<2024, 2, 30>>, <<>>}

\* The date lists of a series: its parseable dates are in calendar order.
DateLists ==
    {ds \in UNION {[1..n -> DateStrings] : n \in 0..MaxDates} :
        \A i, j \in 1..Len(ds) :
            (i < j /\ Parses(ds[i]) /\ Parses(ds[j])) => Ordinal(ds[i]) <= Ordinal(ds[j])}

\* A caller with a date list and no scan made yet.
DaysInit ==
    /\ dates \in DateLists
    /\ opens = <<>> /\ highs = <<>> /\ lows = <<>> /\ closes = <<>> /\ volumes = <<>>
    /\ atr = <<>>
    /\ pc = "ready"
    /\ patterns = <<>>
    /\ trace = <<>>

\* The records the scanner builds for a pattern at each index 0..len(dates):
\* pattern_date is dates[idx], or '' past the end of the list.
DatePatterns ==
    /\ pc = "ready"
    /\ patterns' = [k \in 1..(Len(dates) + 1) |->
                       PatternRecord(k - 1, Found("hammer", "bullish", 90), "pending", dates)]
    /\ pc' = "dated"
    /\ UNCHANGED <<opens, highs, lows, closes, volumes, atr, dates, trace>>

DaysNext == DatePatterns

DaysSpec == DaysInit /\ [][DaysNext]_vars

\* The calendar day after d.
NextDay(d) ==
    IF d[3] < DaysInMonth(d[1], d[2]) THEN <<d[1], d[2], d[3] + 1>>
    ELSE IF d[2] < 12 THEN <<d[1], d[2] + 1, 1>>
    ELSE <<d[1] + 1, 1, 1>>

\* Days counted one by one from a forward to b (at most fuel of them).
RECURSIVE DaysCounted(_, _, _)
DaysCounted(a, b, fuel) ==
    IF a = b \/ fuel = 0 THEN 0 ELSE 1 + DaysCounted(NextDay(a), b, fuel - 1)

\* C11: days_ago of every record is the number of calendar days from the
\* pattern's date to the last date of the list, is never negative, and is 0
\* when the list is empty or one of the two strings does not parse.
C11_DaysAgo ==
    pc = "dated" =>
        \A k \in 1..Len(patterns) :
            LET r == patterns[k]
            IN  /\ r.days_ago >= 0
                /\ IF dates = <<>> \/ ~Parses(r.date) \/ ~Parses(dates[Len(dates)])
                   THEN r.days_ago = 0
                   ELSE r.days_ago = DaysCounted(r.date, dates[Len(dates)], 400)

\* A list from 2023-12-31 to 2024-03-01: 61 days across the leap day, and the
\* record past the end of the list, whose date '' does not parse.
C11_Witness ==
    /\ pc = "dated"
    /\ \E k \in 1..Len(patterns) : patterns[k].days_ago = 61
    /\ \E k \in 1..Len(patterns) :
          ~Parses(patterns[k].date) /\ patterns[k].days_ago = 0

(* ------------------------------------------------------------------ *)
(* Running the scanner again on the same arguments                    *)
(* ------------------------------------------------------------------ *)

\* Faulty variant: the call consumes the last entry of the date list.
ArgsDatesConsumed(o, h, l, c, v, a, ds) ==
    <<o, h, l, c, v, a, IF ds = <<>> THEN ds ELSE SubSeq(ds, 1, Len(ds) - 1)>>

\* The caller's lists and ATR after a call of scan_patterns_last_7days: the
\* function reads its arguments and assigns to none of them (it appends to
\* and sorts its own list only), and reads nothing else.
ArgsAfterScan(o, h, l, c, v, a, ds) == <<o, h, l, c, v, a, ds>>

\* A caller whose ATR is 5.0.
RerunInit == Init /\ atr = <<Dbl(50)>>

\* A day's bar arrives in the lists the caller holds.
NewBar ==
    /\ Len(opens) < MaxLen
    /\ \E bar \in Bars :
        /\ opens' = Append(opens, bar.o)
        /\ highs' = Append(highs, bar.h)
        /\ lows' = Append(lows, bar.l)
        /\ closes' = Append(closes, bar.c)
        /\ volumes' = Append(volumes, bar.v)
    /\ dates' = Append(dates, DateOfBar(Len(dates)))
    /\ pc' = "loaded"
    /\ UNCHANGED <<atr, patterns, trace>>

\* scan_patterns_last_7days is called on the caller's lists: the first call
\* after a bar arrived ("done"), or a further call on the lists of the last
\* call ("rescanned").
ScanLists ==
    /\ pc \in {"loaded", "done", "rescanned"}
    /\ \E r \in {scan_patterns_last_7days(opens, highs, lows, closes, volumes, atr, dates)} :
        /\ pc' = IF r.raised THEN "raised"
                 ELSE IF pc = "loaded" THEN "done" ELSE "rescanned"
        /\ patterns' = r.patterns
        /\ trace' = r.trace
    /\ \E args \in {ArgsAfterScan(opens, highs, lows, closes, volumes, atr, dates)} :
        /\ opens' = args[1] /\ highs' = args[2] /\ lows' = args[3]
        /\ closes' = args[4] /\ volumes' = args[5] /\ atr' = args[6]
        /\ dates' = args[7]

RerunNext == NewBar \/ ScanLists

RerunSpec == RerunInit /\ [][RerunNext]_vars

RECURSIVE MaxOfSlice(_, _, _)
MaxOfSlice(s, a, b) ==
    IF b - a = 1 THEN At(s, a) ELSE Max2(MaxOfSlice(s, a, b - 1), At(s, b - 1))

RECURSIVE MinOfSlice(_, _, _)
MinOfSlice(s, a, b) ==
    IF b - a = 1 THEN At(s, a) ELSE Min2(MinOfSlice(s, a, b - 1), At(s, b - 1))

RECURSIVE SumOfSlice(_, _, _)
SumOfSlice(s, a, b) ==
    IF b <= a THEN 0 ELSE SumOfSlice(s, a, b - 1) + At(s, b - 1)

\* a + s[a:b].index(x): the first position of x in the slice.
RECURSIVE IndexInSlice(_, _, _, _)
IndexInSlice(s, a, b, x) ==
    IF At(s, a) = x \/ a + 1 >= b THEN a ELSE IndexInSlice(s, a + 1, b, x)

\* Number of i in a..b-1 with s[i] < s[i-1].
RECURSIVE LowerCount(_, _, _)
LowerCount(s, a, b) ==
    IF b <= a THEN 0
    ELSE LowerCount(s, a, b - 1) + (IF At(s, b - 1) < At(s, b - 2) THEN 1 ELSE 0)

\* sum(abs(n * x - total) for x in s[a:b]): n * n times the mean absolute
\* deviation of the slice when n = b - a and total = sum(s[a:b]).
RECURSIVE SumAbsDev(_, _, _, _, _)
SumAbsDev(s, a, b, n, total) ==
    IF b <= a THEN 0
    ELSE SumAbsDev(s, a, b - 1, n, total) + Abs(n * At(s, b - 1) - total)

\* Faulty variant: a bar counts when its high or its low is lower, and 60%
\* of the bars must count.
detect_handle_drift_either(h, l, handle_start_idx, handle_end_idx) ==
    IF handle_end_idx - handle_start_idx < 5 THEN "none"
    ELSE LET total_periods == handle_end_idx - handle_start_idx - 1
             either == Cardinality({i \in (handle_start_idx + 1)..(handle_end_idx - 1) :
                                      At(h, i) < At(h, i - 1) \/ At(l, i) < At(l, i - 1)})
         IN  IF 5 * either >= 3 * total_periods THEN "drift" ELSE "none"

\* 'drift' or None ("none").  count / total_periods >= 0.6 is decided as
\* 5 * count >= 3 * total_periods.
detect_handle_downward_drift(h, l, handle_start_idx, handle_end_idx) ==
    IF handle_end_idx - handle_start_idx < 5 THEN "none"
    ELSE LET lower_highs_count == LowerCount(h, handle_start_idx + 1, handle_end_idx)
             lower_lows_count == LowerCount(l, handle_start_idx + 1, handle_end_idx)
             total_periods == handle_end_idx - handle_start_idx - 1
         IN  IF \/ 5 * lower_highs_count >= 3 * total_periods
                \/ 5 * lower_lows_count >= 3 * total_periods
             THEN "drift" ELSE "none"

\* 'flag' or None.  With n bars, variance < 0.3 * channel_width is decided
\* on n * n times both sides.
detect_handle_flag(h, l, handle_start_idx, handle_end_idx) ==
    IF handle_end_idx - handle_start_idx < 5 THEN "none"
    ELSE LET n == handle_end_idx - handle_start_idx
             sum_high == SumOfSlice(h, handle_start_idx, handle_end_idx)
             sum_low == SumOfSlice(l, handle_start_idx, handle_end_idx)
             high_variance == SumAbsDev(h, handle_start_idx, handle_end_idx, n, sum_high)
             low_variance == SumAbsDev(l, handle_start_idx, handle_end_idx, n, sum_low)
             channel_width == sum_high - sum_low
         IN  IF /\ 10 * high_variance < 3 * n * channel_width
                /\ 10 * low_variance < 3 * n * channel_width
                /\ channel_width > 0
             THEN "flag" ELSE "none"

\* 'pennant' or None.
detect_handle_pennant(h, l, handle_start_idx, handle_end_idx) ==
    IF handle_end_idx - handle_start_idx < 5 THEN "none"
    ELSE LET mid_idx == (handle_start_idx + handle_end_idx) \div 2
             first_half_range == MaxOfSlice(h, handle_start_idx, mid_idx)
                                   - MinOfSlice(l, handle_start_idx, mid_idx)
             second_half_range == MaxOfSlice(h, mid_idx, handle_end_idx)
                                    - MinOfSlice(l, mid_idx, handle_end_idx)
         IN  IF first_half_range = 0 THEN "none"
             ELSE IF 10 * second_half_range < 7 * first_half_range THEN "pennant"
             ELSE "none"

\* Faulty variant: the flag test is tried before the drift test.
detect_handle_shape_flag_first(h, l, handle_start_idx, handle_end_idx) ==
    IF detect_handle_flag(h, l, handle_start_idx, handle_end_idx) # "none"
    THEN "flag"
    ELSE IF detect_handle_downward_drift(h, l, handle_start_idx, handle_end_idx) # "none"
    THEN "drift"
    ELSE detect_handle_pennant(h, l, handle_start_idx, handle_end_idx)

\* drift, then flag, then pennant: the first that matches.
detect_handle_shape(h, l, handle_start_idx, handle_end_idx) ==
    IF detect_handle_downward_drift(h, l, handle_start_idx, handle_end_idx) # "none"
    THEN "drift"
    ELSE IF detect_handle_flag(h, l, handle_start_idx, handle_end_idx) # "none"
    THEN "flag"
    ELSE detect_handle_pennant(h, l, handle_start_idx, handle_end_idx)

validate_handle_position(handle_start_idx, handle_end_idx, l, c, cup_bottom_price, cup_rim_price) ==
    LET handle_low == MinOfSlice(l, handle_start_idx, handle_end_idx)
        handle_start_price == At(c, handle_start_idx)
        cup_range == cup_rim_price - cup_bottom_price
    IN  IF handle_low <= cup_bottom_price THEN FALSE
        ELSE IF 2 * (handle_low - cup_bottom_price) < cup_range THEN FALSE
        ELSE IF 100 * (handle_start_price - handle_low) > 15 * handle_start_price THEN FALSE
        ELSE TRUE

\* breakout_idx is <<>> for None and <<i>> for the bar i.
\* handle_avg > cup_avg * 0.7 and breakout_volume < handle_avg * 1.5 are
\* decided on the sums.
validate_volume_requirements(v, cup_start_idx, cup_end_idx, handle_start_idx, handle_end_idx, breakout_idx) ==
    LET cup_len == cup_end_idx - cup_start_idx
        handle_len == handle_end_idx - handle_start_idx
        cup_sum == SumOfSlice(v, cup_start_idx, cup_end_idx)
        handle_sum == SumOfSlice(v, handle_start_idx, handle_end_idx)
    IN  IF v = <<>> \/ cup_len <= 0 \/ handle_len <= 0 THEN FALSE
        ELSE IF 10 * handle_sum * cup_len > 7 * cup_sum * handle_len THEN FALSE
        ELSE IF breakout_idx # <<>> /\ 2 * At(v, breakout_idx[1]) * handle_len < 3 * handle_sum
        THEN FALSE
        ELSE TRUE

(* ------------------------------------------------------------------ *)
(* Cup and handle: the search of detect_cup_and_handle                *)
(* ------------------------------------------------------------------ *)

\* The price in tenths of a dollar nearest a double, and round(price, 2) in
\* cents.
Tenths(x) == (x + 512) \div 1024
Cents(x) == 10 * Tenths(x)

\* Python truth of breakout_idx: neither None nor 0.
Truthy(breakout_idx) == breakout_idx # <<>> /\ breakout_idx[1] # 0

\* dates[i] if i < len(dates) else None (None is <<>>).
DateOrNone(ds, i) == IF i < Len(ds) THEN At(ds, i) ELSE <<>>

\* Faulty variant: the first bar that closes 1% above the resistance is the
\* breakout, whatever its volume.
RECURSIVE FindBreakoutByClose(_, _, _, _, _, _, _)
FindBreakoutByClose(i, c, v, left_rim_idx, right_rim_idx, handle_end_idx, handle_resistance) ==
    IF i >= Len(c) THEN <<>>
    ELSE IF 100 * At(c, i) >= 101 * handle_resistance THEN <<i>>
    ELSE FindBreakoutByClose(i + 1, c, v, left_rim_idx, right_rim_idx, handle_end_idx,
                             handle_resistance)

\* The loop over i from handle_end_idx: the first bar with
\* closes[i] >= handle_resistance * 1.01 that validate_volume_requirements
\* accepts as the breakout, or None.
RECURSIVE FindBreakout(_, _, _, _, _, _, _)
FindBreakout(i, c, v, left_rim_idx, right_rim_idx, handle_end_idx, handle_resistance) ==
    IF i >= Len(c) THEN <<>>
    ELSE IF /\ 100 * At(c, i) >= 101 * handle_resistance
            /\ validate_volume_requirements(v, left_rim_idx, right_rim_idx, right_rim_idx,
                                            handle_end_idx, <<i>>)
    THEN <<i>>
    ELSE FindBreakout(i + 1, c, v, left_rim_idx, right_rim_idx, handle_end_idx,
                      handle_resistance)

\* Faulty variant: a handle that ended before the last 7 bars still counts
\* as forming.
RecencyAnyHandle(breakout_idx, handle_end_idx, n) ==
    IF Truthy(breakout_idx) /\ breakout_idx[1] >= n - 7
    THEN [status |-> "confirmed", days_ago |-> n - 1 - breakout_idx[1]]
    ELSE [status |-> "forming", days_ago |-> n - 1 - handle_end_idx]

\* status and days_ago of a candidate in a series of n bars; status "old" is
\* the branch that continues the search.
Recency(breakout_idx, handle_end_idx, n) ==
    IF Truthy(breakout_idx) /\ breakout_idx[1] >= n - 7
    THEN [status |-> "confirmed", days_ago |-> n - 1 - breakout_idx[1]]
    ELSE IF handle_end_idx >= n - 7 /\ ~Truthy(breakout_idx)
    THEN [status |-> "forming", days_ago |-> n - 1 - handle_end_idx]
    ELSE [status |-> "old", days_ago |-> 0]

\* One iteration of the loop over handle_end: its locals and the gate that
\* ended it ("position", "shape", "volume", "old" continue; "returned" returns).
HandleIteration(handle_end, left_rim_idx, right_rim_idx, cup_bottom_price, left_rim_price, h, l, c, v) ==
    LET position == validate_handle_position(right_rim_idx, handle_end, l, c,
                                             cup_bottom_price, left_rim_price)
        handle_shape == detect_handle_shape(h, l, right_rim_idx, handle_end)
        volume == validate_volume_requirements(v, left_rim_idx, right_rim_idx, right_rim_idx,
                                               handle_end, <<>>)
        handle_resistance == MaxOfSlice(h, right_rim_idx, handle_end)
        breakout_idx == FindBreakout(handle_end, c, v, left_rim_idx, right_rim_idx,
                                     handle_end, handle_resistance)
        recency == Recency(breakout_idx, handle_end, Len(c))
        rejected(gate) == [handle_end |-> handle_end, gate |-> gate, handle_shape |-> "none",
                           handle_resistance |-> 0, handle_low |-> 0,
                           breakout_idx |-> <<>>, status |-> "none", days_ago |-> 0]
    IN  IF ~position THEN rejected("position")
        ELSE IF handle_shape = "none" THEN rejected("shape")
        ELSE IF ~volume THEN rejected("volume")
        ELSE [handle_end |-> handle_end,
              gate |-> IF recency.status = "old" THEN "old" ELSE "returned",
              handle_shape |-> handle_shape,
              handle_resistance |-> handle_resistance,
              handle_low |-> MinOfSlice(l, right_rim_idx, handle_end),
              breakout_idx |-> breakout_idx,
              status |-> recency.status,
              days_ago |-> recency.days_ago]

\* The loop over handle_end from handle_end to handle_search_end: the
\* iterations run, the last of which returned if any did.
RECURSIVE HandleLoop(_, _, _, _, _, _, _, _, _, _)
HandleLoop(handle_end, handle_search_end, left_rim_idx, right_rim_idx, cup_bottom_price, left_rim_price, h, l, c, v) ==
    IF handle_end > handle_search_end THEN <<>>
    ELSE LET it == HandleIteration(handle_end, left_rim_idx, right_rim_idx,
                                   cup_bottom_price, left_rim_price, h, l, c, v)
         IN  IF it.gate = "returned" THEN <<it>>
             ELSE <<it>> \o HandleLoop(handle_end + 1, handle_search_end, left_rim_idx,
                                       right_rim_idx, cup_bottom_price, left_rim_price,
                                       h, l, c, v)

\* No right rim found.
NoRim == [idx |-> -1, dev |-> 0]

\* Faulty variant: the search takes in the bar at index b as well.
RightRimSearchInclusive(h, a, b, left_rim_price) ==
    LET near == {i \in a..b : 100 * Abs(At(h, i) - left_rim_price) <= 3 * left_rim_price}
    IN  IF near = {} THEN NoRim
        ELSE LET best == CHOOSE i \in near :
                             \A j \in near :
                                 \/ Abs(At(h, i) - left_rim_price) < Abs(At(h, j) - left_rim_price)
                                 \/ /\ Abs(At(h, i) - left_rim_price) = Abs(At(h, j) - left_rim_price)
                                    /\ i <= j
             IN  [idx |-> best, dev |-> Abs(At(h, best) - left_rim_price)]

\* The loop over i in range(a, b) that keeps the high closest to
\* left_rim_price among those within 3% of it (the first of equally close
\* ones): its index and its distance from the rim.
RECURSIVE RightRimSearch(_, _, _, _)
RightRimSearch(h, a, b, left_rim_price) ==
    IF b <= a THEN NoRim
    ELSE LET best == RightRimSearch(h, a, b - 1, left_rim_price)
             dev == Abs(At(h, b - 1) - left_rim_price)
         IN  IF 100 * dev <= 3 * left_rim_price /\ (best = NoRim \/ dev < best.dev)
             THEN [idx |-> b - 1, dev |-> dev]
             ELSE best

\* Faulty variant: a depth of exactly 12% or 35% is rejected as well.
DepthRejectedAtBounds(left_rim_price, cup_bottom_price) ==
    \/ 100 * (left_rim_price - cup_bottom_price) <= 12 * left_rim_price
    \/ 100 * (left_rim_price - cup_bottom_price) >= 35 * left_rim_price

\* depth_percent < 12 or depth_percent > 35.
DepthRejected(left_rim_price, cup_bottom_price) ==
    \/ 100 * (left_rim_price - cup_bottom_price) < 12 * left_rim_price
    \/ 100 * (left_rim_price - cup_bottom_price) > 35 * left_rim_price

\* Faulty variant: a ratio of exactly 0.5 or 2.0 is rejected as well.
SymmetryRejectedAtBounds(left_duration, right_duration) ==
    2 * right_duration <= left_duration \/ right_duration >= 2 * left_duration

\* time_ratio < 0.5 or time_ratio > 2.0, time_ratio being
\* right_duration / left_duration.
SymmetryRejected(left_duration, right_duration) ==
    2 * right_duration < left_duration \/ right_duration > 2 * left_duration

\* Faulty variant: the right rim itself is not checked.
RimViolationBeforeRightRim(h, left_rim_idx, right_rim_idx, left_rim_price) ==
    \E i \in (left_rim_idx + 1)..(right_rim_idx - 1) :
        100 * At(h, i) > 102 * left_rim_price

\* The loop over range(left_rim_idx + 1, right_rim_idx + 1): some high is
\* above left_rim_price * 1.02.
RimViolation(h, left_rim_idx, right_rim_idx, left_rim_price) ==
    \E i \in (left_rim_idx + 1)..right_rim_idx :
        100 * At(h, i) > 102 * left_rim_price

\* One iteration of the loop over bottom_search_end: its locals, the gate
\* that ended it ("handle" when the handle loop was entered) and the
\* iterations of the handle loop.
CupIteration(left_rim_idx, bottom_search_end, h, l, c, v) ==
    LET left_rim_price == At(h, left_rim_idx)
        cup_bottom_price == MinOfSlice(l, left_rim_idx, bottom_search_end)
        cup_bottom_idx == IndexInSlice(l, left_rim_idx, bottom_search_end, cup_bottom_price)
        search_end == Min2(Min2(cup_bottom_idx + (cup_bottom_idx - left_rim_idx) * 3,
                                left_rim_idx + 300), Len(h) - 5)
        right_rim_idx == RightRimSearch(h, cup_bottom_idx + 5, search_end, left_rim_price).idx
        rim_violation == RimViolation(h, left_rim_idx, right_rim_idx, left_rim_price)
        left_duration == cup_bottom_idx - left_rim_idx
        right_duration == right_rim_idx - cup_bottom_idx
        gate == IF DepthRejected(left_rim_price, cup_bottom_price) THEN "depth"
                ELSE IF cup_bottom_idx >= Len(h) - 10 THEN "room"
                ELSE IF right_rim_idx = -1 THEN "right_rim"
                ELSE IF rim_violation THEN "rim_violation"
                ELSE IF left_duration = 0 THEN "left_duration"
                ELSE IF SymmetryRejected(left_duration, right_duration) THEN "symmetry"
                ELSE IF right_duration < 5 THEN "v_shape"
                ELSE "handle"
    IN  [left_rim_idx |-> left_rim_idx,
         bottom_search_end |-> bottom_search_end,
         cup_bottom_idx |-> cup_bottom_idx,
         right_rim_idx |-> IF gate \in {"depth", "room"} THEN -1 ELSE right_rim_idx,
         gate |-> gate,
         handles |-> IF gate = "handle"
                     THEN HandleLoop(right_rim_idx + 5, Min2(right_rim_idx + 25, Len(c)),
                                     left_rim_idx, right_rim_idx, cup_bottom_price,
                                     left_rim_price, h, l, c, v)
                     ELSE <<>>]

\* The iterations end with one whose handle loop returned.
Returned(its) ==
    /\ its # <<>>
    /\ its[Len(its)].handles # <<>>
    /\ its[Len(its)].handles[Len(its[Len(its)].handles)].gate = "returned"

\* The loop over bottom_search_end from bottom_search_end on; AfterCup is
\* the loop after the iteration it: it returns or goes on with the next
\* bottom_search_end.
RECURSIVE BottomLoop(_, _, _, _, _, _)
AfterCup(it, left_rim_idx, bottom_search_end, h, l, c, v) ==
    IF Returned(<<it>>) THEN <<it>>
    ELSE <<it>> \o BottomLoop(left_rim_idx, bottom_search_end + 1, h, l, c, v)

\* Faulty variant: the bottom search runs one bar further, to len - 4.
BottomLoopToEnd(left_rim_idx, bottom_search_end, h, l, c, v) ==
    IF bottom_search_end >= Min2(left_rim_idx + 301, Len(l) - 4) THEN <<>>
    ELSE AfterCup(CupIteration(left_rim_idx, bottom_search_end, h, l, c, v),
                  left_rim_idx, bottom_search_end, h, l, c, v)

BottomLoop(left_rim_idx, bottom_search_end, h, l, c, v) ==
    IF bottom_search_end >= Min2(left_rim_idx + 301, Len(l) - 5) THEN <<>>
    ELSE AfterCup(CupIteration(left_rim_idx, bottom_search_end, h, l, c, v),
                  left_rim_idx, bottom_search_end, h, l, c, v)

\* highs[left_rim_idx] is the highest high of the 11 bars around it.
IsLocalHigh(left_rim_idx, h) ==
    At(h, left_rim_idx) = MaxOfSlice(h, Max2(0, left_rim_idx - 5),
                                     Min2(Len(h), left_rim_idx + 6))

\* Faulty variant: the left rims are tried from the oldest on.
RECURSIVE RimLoopAscending(_, _, _, _, _, _)
RimLoopAscending(left_rim_idx, stop, h, l, c, v) ==
    IF left_rim_idx <= stop THEN <<>>
    ELSE LET older == RimLoopAscending(left_rim_idx - 1, stop, h, l, c, v)
         IN  IF Returned(older) \/ ~IsLocalHigh(left_rim_idx, h) THEN older
             ELSE older \o BottomLoop(left_rim_idx, left_rim_idx + 30, h, l, c, v)

\* The loop over left_rim_idx from left_rim_idx down to stop + 1: the
\* iterations of the bottom loop run for the local highs, in order.
\* AfterRim is the loop after the bottom loop of one left rim ran the
\* iterations its: it returns or goes on with the next older rim.
RECURSIVE RimLoop(_, _, _, _, _, _)
AfterRim(its, left_rim_idx, stop, h, l, c, v) ==
    IF Returned(its) THEN its
    ELSE its \o RimLoop(left_rim_idx - 1, stop, h, l, c, v)

RimLoop(left_rim_idx, stop, h, l, c, v) ==
    IF left_rim_idx <= stop THEN <<>>
    ELSE IF ~IsLocalHigh(left_rim_idx, h) THEN RimLoop(left_rim_idx - 1, stop, h, l, c, v)
    ELSE AfterRim(BottomLoop(left_rim_idx, left_rim_idx + 30, h, l, c, v),
                  left_rim_idx, stop, h, l, c, v)

\* Faulty variant: the risk is measured down to the cup bottom.
CupTargetsFromBottom(rim, bottom, handle_low) ==
    LET num == 100 * (rim - bottom)
        risk == rim - bottom
    IN  [depth_percent |-> RoundHalfEven(100 * num, rim),
         profit_target |-> RoundHalfEven(10 * (rim * 100 * rim + rim * num), 100 * rim),
         risk_reward_ratio |-> IF risk > 0 THEN RoundHalfEven(rim * num, rim * risk) ELSE 0]

\* depth_percent (hundredths of a percent), profit_target (cents) and
\* risk_reward_ratio (hundredths) as returned, from prices in tenths:
\* depth_percent is num / rim, profit_target is rim + rim * (depth / 100),
\* reward is profit_target - rim and risk is rim - handle_low.
CupTargets(rim, bottom, handle_low) ==
    LET num == 100 * (rim - bottom)
        risk == rim - handle_low
    IN  [depth_percent |-> RoundHalfEven(100 * num, rim),
         profit_target |-> RoundHalfEven(10 * (rim * 100 * rim + rim * num), 100 * rim),
         risk_reward_ratio |-> IF risk > 0 THEN RoundHalfEven(rim * num, rim * risk) ELSE 0]

\* The dict returned for the iteration it of the bottom loop and the
\* iteration hit of its handle loop.
CupRecord(it, hit, h, l, ds) ==
    LET rim_price == At(h, it.left_rim_idx)
        cup_bottom_price == At(l, it.cup_bottom_idx)
        handle_low == MinOfSlice(l, it.right_rim_idx, hit.handle_end)
        targets == CupTargets(Tenths(rim_price), Tenths(cup_bottom_price), Tenths(handle_low))
    IN  [pattern |-> "cup_and_handle",
         signal |-> "bullish",
         handle_shape |-> hit.handle_shape,
         cup_start_date |-> DateOrNone(ds, it.left_rim_idx),
         cup_end_date |-> DateOrNone(ds, it.right_rim_idx),
         handle_start_date |-> DateOrNone(ds, it.right_rim_idx),
         breakout_date |-> IF hit.breakout_idx = <<>> THEN <<>>
                           ELSE DateOrNone(ds, hit.breakout_idx[1]),
         rim_price |-> Cents(rim_price),
         cup_bottom_price |-> Cents(cup_bottom_price),
         handle_low |-> Cents(handle_low),
         depth_percent |-> targets.depth_percent,
         profit_target |-> targets.profit_target,
         risk_reward_ratio |-> targets.risk_reward_ratio,
         status |-> hit.status,
         confidence |-> IF hit.handle_shape = "drift" THEN 87
                        ELSE IF hit.handle_shape = "flag" THEN 82
                        ELSE IF hit.handle_shape = "pennant" THEN 77 ELSE 75,
         days_ago |-> hit.days_ago]

\* detect_cup_and_handle: the iterations run and the dict returned, as the
\* list main stores (one record or none).
CupResult(its, h, l, ds) ==
    [trace |-> its,
     patterns |-> IF Returned(its)
                  THEN <<CupRecord(its[Len(its)],
                                   its[Len(its)].handles[Len(its[Len(its)].handles)],
                                   h, l, ds)>>
                  ELSE <<>>]

detect_cup_and_handle(o, h, l, c, v, ds) ==
    IF Len(c) < 35 THEN [trace |-> <<>>, patterns |-> <<>>]
    ELSE CupResult(RimLoop(Len(c) - 35,
                           Max2(0, Len(c) - Min2(300, Len(c) - 35) - 1), h, l, c, v),
                   h, l, ds)

(* ------------------------------------------------------------------ *)
(* Cup and handle: inputs and state machine                           *)
(* ------------------------------------------------------------------ *)

\* Longest series the daily append builds for detect_cup_and_handle.
MaxCupLen == 73

\* Bars in tenths of a dollar (all multiples of 0.5, exact as doubles).
LeadBar      == Candle( 915,  920,  910,  915, 10)
RimBar       == Candle( 990, 1000,  990,  995, 10)
BottomBar(low) == Candle(915, 920, low, 915, 10)
RightRimBar  == Candle( 990, 1000,  985,  995, 6)
HighRimBar   == Candle(1015, 1015, 1015, 1015, 6)
EdgeRimBar   == Candle(1020, 1020, 1020, 1020, 6)
OverRimBar   == Candle(1025, 1025, 1025, 1025, 6)
HeavyRimBar  == Candle( 990, 1000,  985,  995, 8)
QuietBar     == Candle( 970,  975,  960,  970, 6)
BusyBar      == Candle( 970,  975,  960,  970, 20)
BreakoutBar  == Candle(1000, 1030, 1000, 1010, 9)
WeakBreakout == Candle(1000, 1030, 1000, 1010, 6)

\* Handles after the right rim: lower highs and lower lows; lower highs on
\* some bars and lower lows on others; lows falling to the rim price.
DriftHandle ==
    <<Candle(990, 995, 980, 985, 6), Candle(985, 990, 975, 980, 6),
      Candle(980, 985, 970, 975, 6), Candle(975, 980, 965, 970, 6)>>
HeavyHandle ==
    <<Candle(990, 995, 980, 985, 7), Candle(985, 990, 975, 980, 7),
      Candle(980, 985, 970, 975, 7), Candle(975, 980, 965, 970, 7)>>
MixedHandle ==
    <<Candle(985, 990, 985, 985, 6), Candle(985, 990, 980, 985, 6),
      Candle(980, 980, 980, 980, 6), Candle(980, 980, 980, 980, 6)>>
HighHandle ==
    <<Candle(1015, 1015, 1010, 1010, 6), Candle(1010, 1015, 1005, 1005, 6),
      Candle(1005, 1015, 1000, 1000, 6), Candle(1000, 1015, 1000, 1005, 6)>>
SlideBars ==
    <<Candle(970, 975, 960, 965, 6), Candle(965, 970, 955, 960, 6),
      Candle(960, 965, 950, 955, 6), Candle(955, 960, 945, 950, 6),
      Candle(950, 955, 940, 945, 6), Candle(945, 950, 935, 940, 6)>>
ShortHandle == SubSeq(DriftHandle, 1, 3)
LongHandle == DriftHandle \o <<QuietBar>> \o SlideBars
BrokenHandle == DriftHandle \o <<BreakoutBar>> \o SlideBars

\* A series with a left rim at index 35 (and 36 when rims = 2), a bottom bar,
\* a right rim bar and a handle, flat elsewhere.
CupSeries(rims, bottom_idx, bottom_low, right_rim_idx, right_rim_bar, handle) ==
    [k \in 1..(right_rim_idx + 1 + Len(handle)) |->
        LET i == k - 1
        IN  IF i = 35 \/ (rims = 2 /\ i = 36) THEN RimBar
            ELSE IF i = bottom_idx THEN BottomBar(bottom_low)
            ELSE IF i = right_rim_idx THEN right_rim_bar
            ELSE IF i > right_rim_idx THEN handle[i - right_rim_idx]
            ELSE LeadBar]

\* A cup whose low two bars before the right rim (index 65, right rim at 67)
\* is lower than the low of its bottom bar at index 50.
LateLowSeries ==
    [CupSeries(1, 50, 800, 67, RightRimBar, DriftHandle) EXCEPT ![66] = BottomBar(750)]

\* The histories a series starts with: cups 20%, 12%, 11.5%, 35% and 35.5%
\* deep; cups whose right side is 2.0, 2.33, 0.5 and 0.43 times as long as
\* the left; the other handles; a rim of two bars; a right rim reached early;
\* right rims 2% and 2.5% above the left rim; a handle whose volume is low
\* enough only with a sixth bar; a cup with a lower low after its bottom bar;
\* a right rim that leaves room for a handle of four bars only.
CupHistories ==
    {CupSeries(1, 50, 800, 65, RightRimBar, DriftHandle),
     CupSeries(1, 50, 880, 65, RightRimBar, DriftHandle),
     CupSeries(1, 50, 885, 65, RightRimBar, DriftHandle),
     CupSeries(1, 50, 650, 65, RightRimBar, DriftHandle),
     CupSeries(1, 50, 645, 65, RightRimBar, DriftHandle),
     CupSeries(1, 45, 800, 65, RightRimBar, DriftHandle),
     CupSeries(1, 44, 800, 65, RightRimBar, DriftHandle),
     CupSeries(1, 55, 800, 65, RightRimBar, DriftHandle),
     CupSeries(1, 56, 800, 65, RightRimBar, DriftHandle),
     CupSeries(1, 50, 800, 65, RightRimBar, MixedHandle),
     CupSeries(1, 50, 800, 65, HighRimBar, HighHandle),
     CupSeries(2, 50, 800, 65, RightRimBar, DriftHandle),
     CupSeries(1, 46, 800, 58, RightRimBar, LongHandle),
     CupSeries(1, 46, 800, 58, RightRimBar, BrokenHandle),
     CupSeries(1, 50, 800, 65, EdgeRimBar, DriftHandle),
     CupSeries(1, 50, 800, 65, OverRimBar, DriftHandle),
     CupSeries(1, 50, 800, 65, HeavyRimBar, HeavyHandle),
     LateLowSeries,
     CupSeries(1, 50, 800, 66, RightRimBar, ShortHandle)}

\* The bars a new day can bring.
CupBars == {QuietBar, BusyBar, BreakoutBar, WeakBreakout}

\* The date string of the bar at index i: consecutive days from 2024-01-01.
DateOfDay(i) ==
    IF i < 31 THEN <<2024, 1, i + 1>>
    ELSE IF i < 60 THEN <<2024, 2, i - 30>>
    ELSE <<2024, 3, i - 59>>

\* Construction: a history and its dates; nothing detected.
CupInit ==
    \E history \in CupHistories :
        /\ opens = [i \in 1..Len(history) |-> history[i].o]
        /\ highs = [i \in 1..Len(history) |-> history[i].h]
        /\ lows = [i \in 1..Len(history) |-> history[i].l]
        /\ closes = [i \in 1..Len(history) |-> history[i].c]
        /\ volumes = [i \in 1..Len(history) |-> history[i].v]
        /\ atr = <<>>
        /\ dates = [i \in 1..Len(history) |-> DateOfDay(i - 1)]
        /\ pc = "ready"
        /\ patterns = <<>>
        /\ trace = <<>>

\* The day's run: the lists arrive one bar longer and detect_cup_and_handle
\* is called on them; main stores the dict in a list, or the empty list.
DetectCup ==
    /\ Len(opens) < MaxCupLen
    /\ \E bar \in CupBars :
        /\ opens' = Append(opens, bar.o)
        /\ highs' = Append(highs, bar.h)
        /\ lows' = Append(lows, bar.l)
        /\ closes' = Append(closes, bar.c)
        /\ volumes' = Append(volumes, bar.v)
    /\ dates' = Append(dates, DateOfDay(Len(dates)))
    /\ \E r \in {detect_cup_and_handle(opens', highs', lows', closes', volumes', dates')} :
        /\ pc' = "detected"
        /\ patterns' = r.patterns
        /\ trace' = r.trace
    /\ UNCHANGED atr

CupNext == DetectCup

CupSpec == CupInit /\ [][CupNext]_vars

(* ------------------------------------------------------------------ *)
(* Cup and handle: properties                                         *)
(* ------------------------------------------------------------------ *)

\* The iterations of the bottom loop in the last detection, and the
\* iterations of their handle loops paired with them.
CupIterations == {trace[k] : k \in 1..Len(trace)}
HandleIterations ==
    UNION {{[cup |-> it, handle |-> it.handles[k]] : k \in 1..Len(it.handles)} :
              it \in CupIterations}

\* The handle iterations that passed position, shape and volume.
HandleCandidates == {x \in HandleIterations : x.handle.gate \in {"old", "returned"}}

\* The iteration that returned, when a record was returned.
ReturnedIteration == CHOOSE x \in HandleIterations : x.handle.gate = "returned"

\* Left-rim candidates of the series: the local highs the outer loop visits.
CupLeftRims ==
    {left \in 0..(Len(closes) - 35) :
        /\ left > Max2(0, Len(closes) - Min2(300, Len(closes) - 35) - 1)
        /\ IsLocalHigh(left, highs)}

\* The candidates <<left rim, bottom-search end, handle end>> of the series
\* that pass every gate and the recency check.
CupPassing ==
    UNION {UNION {LET it == CupIteration(left, bse, highs, lows, closes, volumes)
                  IN  IF it.gate # "handle" THEN {}
                      ELSE {<<left, bse, he>> :
                               he \in {e \in (it.right_rim_idx + 5)..
                                              Min2(it.right_rim_idx + 25, Len(closes)) :
                                          HandleIteration(e, left, it.right_rim_idx,
                                                          At(lows, it.cup_bottom_idx),
                                                          At(highs, left), highs, lows,
                                                          closes, volumes).gate = "returned"}} :
                     bse \in (left + 30)..(Min2(left + 301, Len(lows) - 5) - 1)} :
              left \in CupLeftRims}

\* The search order: later left rims first, then bottom-search ends
\* ascending, then handle ends ascending.
SearchedBefore(t, u) ==
    \/ t[1] > u[1]
    \/ t[1] = u[1] /\ t[2] < u[2]
    \/ t[1] = u[1] /\ t[2] = u[2] /\ t[3] < u[3]

\* The record of a candidate.
RecordOf(t) ==
    LET it == CupIteration(t[1], t[2], highs, lows, closes, volumes)
    IN  CupRecord(it,
                  HandleIteration(t[3], t[1], it.right_rim_idx, At(lows, it.cup_bottom_idx),
                                  At(highs, t[1]), highs, lows, closes, volumes),
                  highs, lows, dates)

\* C13: detect_cup_and_handle returns at most one record, and it is the
\* record of the first candidate, in the search order, that passes every gate
\* and the recency check; it returns nothing when no candidate passes.
C13_FirstCandidate ==
    pc = "detected" =>
        /\ Len(patterns) <= 1
        /\ IF CupPassing = {} THEN patterns = <<>>
           ELSE LET first == CHOOSE t \in CupPassing :
                                 \A u \in CupPassing \ {t} : SearchedBefore(t, u)
                IN  patterns = <<RecordOf(first)>>

\* Two left rims have passing candidates and a record was returned.
C13_Witness ==
    /\ pc = "detected"
    /\ patterns # <<>>
    /\ \E t, u \in CupPassing : t[1] # u[1]

\* The first bar at or after handle_end that closes at or above 1.01 times the
\* highest high of the handle on a volume of at least 1.5 times the handle's
\* average volume: <<>> when there is none.
BreakoutBarOf(right_rim_idx, handle_end) ==
    LET resistance == CHOOSE m \in {At(highs, i) : i \in right_rim_idx..(handle_end - 1)} :
                          \A i \in right_rim_idx..(handle_end - 1) : At(highs, i) <= m
        bars == {i \in handle_end..(Len(closes) - 1) :
                    /\ 100 * At(closes, i) >= 101 * resistance
                    /\ 2 * At(volumes, i) * (handle_end - right_rim_idx)
                         >= 3 * SumOfSlice(volumes, right_rim_idx, handle_end)}
    IN  IF bars = {} THEN <<>>
        ELSE <<CHOOSE i \in bars : \A j \in bars : i <= j>>

\* C14: a candidate is returned as 'confirmed', with days_ago = last index -
\* breakout index, exactly when its breakout is within the last 7 bars; as
\* 'forming', with days_ago = last index - handle_end, exactly when it has no
\* breakout and its handle ends within the last 7 bars; and it is not
\* returned when neither holds.
C14_Status ==
    pc = "detected" =>
        \A x \in HandleCandidates :
            LET n == Len(closes)
                b == BreakoutBarOf(x.cup.right_rim_idx, x.handle.handle_end)
                recent_breakout == b # <<>> /\ b[1] >= n - 7
                recent_handle == b = <<>> /\ x.handle.handle_end >= n - 7
            IN  /\ (x.handle.gate = "returned") <=> (recent_breakout \/ recent_handle)
                /\ x.handle.gate = "returned" =>
                      /\ patterns[1].status \in {"confirmed", "forming"}
                      /\ (patterns[1].status = "confirmed") <=> recent_breakout
                      /\ (patterns[1].status = "forming") <=> recent_handle
                      /\ recent_breakout => patterns[1].days_ago = n - 1 - b[1]
                      /\ recent_handle =>
                            patterns[1].days_ago = n - 1 - x.handle.handle_end

\* A candidate whose breakout is older than 7 bars was passed over and a
\* later handle end was returned as forming.
C14_Witness ==
    /\ pc = "detected"
    /\ patterns # <<>> /\ patterns[1].status = "forming"
    /\ \E x \in HandleCandidates :
          x.handle.gate = "old" /\ x.handle.breakout_idx # <<>>

DepthParts(it) ==
    [num |-> 100 * (At(highs, it.left_rim_idx) - At(lows, it.cup_bottom_idx)),
     den |-> At(highs, it.left_rim_idx)]

\* C16: a cup whose depth percent is below 12 or above 35 is rejected, one
\* whose depth is exactly 12 or exactly 35 is not rejected on depth, and the
\* depth_percent of a returned record is within [12, 35].
C16_DepthBounds ==
    pc = "detected" =>
        /\ \A it \in CupIterations :
              LET d == DepthParts(it)
              IN  /\ (d.num < 12 * d.den \/ d.num > 35 * d.den) =>
                        (it.gate = "depth" /\ it.handles = <<>>)
                  /\ (d.num = 12 * d.den \/ d.num = 35 * d.den) => it.gate # "depth"
        /\ patterns # <<>> =>
              (patterns[1].depth_percent >= 1200 /\ patterns[1].depth_percent <= 3500)

\* A record returned for a cup exactly 12% deep.
C16_Witness ==
    /\ pc = "detected"
    /\ patterns # <<>> /\ patterns[1].depth_percent = 1200
    /\ \E it \in CupIterations :
          DepthParts(it).num = 12 * DepthParts(it).den /\ it.gate = "handle"

\* C17: with left_duration = bottom - left rim and right_duration = right rim
\* - bottom, a cup is rejected when right_duration / left_duration is below
\* 0.5 or above 2.0 and passes the symmetry test when it is exactly 0.5 or 2.0.
C17_TimeSymmetry ==
    pc = "detected" =>
        \A it \in CupIterations :
            it.gate \in {"symmetry", "v_shape", "handle"} =>
                LET left_duration == it.cup_bottom_idx - it.left_rim_idx
                    right_duration == it.right_rim_idx - it.cup_bottom_idx
                IN  /\ (2 * right_duration < left_duration
                          \/ right_duration > 2 * left_duration) =>
                          (it.gate = "symmetry" /\ it.handles = <<>>)
                    /\ (2 * right_duration = left_duration
                          \/ right_duration = 2 * left_duration) => it.gate = "handle"

\* A record returned for a cup whose right side is half as long as its left.
C17_Witness ==
    /\ pc = "detected"
    /\ patterns # <<>>
    /\ \E it \in CupIterations :
          /\ 2 * (it.right_rim_idx - it.cup_bottom_idx) = it.cup_bottom_idx - it.left_rim_idx
          /\ it.gate = "handle"

\* C18: in a returned record profit_target = rim_price * (1 + depth_percent /
\* 100) and risk_reward_ratio = reward / risk, with reward = profit_target -
\* rim_price and risk = rim_price - handle_low, or 0 when risk <= 0; the
\* fields are rounded to 2 decimals after the computation.
C18_Targets ==
    (pc = "detected" /\ patterns # <<>>) =>
        LET x == ReturnedIteration
            rim == Tenths(At(highs, x.cup.left_rim_idx))
            bottom == Tenths(At(lows, x.cup.cup_bottom_idx))
            handle_low == Tenths(MinOfSlice(lows, x.cup.right_rim_idx, x.handle.handle_end))
            depth == 100 * (rim - bottom)
            risk == rim - handle_low
        IN  /\ patterns[1].rim_price = 10 * rim
            /\ patterns[1].handle_low = 10 * handle_low
            /\ patterns[1].profit_target = RoundHalfEven(10 * (100 * rim + depth), 100)
            /\ patterns[1].risk_reward_ratio =
                  IF risk > 0 THEN RoundHalfEven(depth, risk) ELSE 0

\* A record whose handle never went below the rim price: the risk is 0 and
\* so is the ratio.
C18_Witness ==
    /\ pc = "detected"
    /\ patterns # <<>>
    /\ patterns[1].handle_low >= patterns[1].rim_price
    /\ patterns[1].risk_reward_ratio = 0
    /\ patterns[1].profit_target = 12000

\* Steps of a handle window with a lower high, with a lower low, with either.
LowerHighSteps(a, b) == {i \in (a + 1)..(b - 1) : At(highs, i) < At(highs, i - 1)}
LowerLowSteps(a, b) == {i \in (a + 1)..(b - 1) : At(lows, i) < At(lows, i - 1)}

\* The handle iterations whose shape was classified.
ShapedHandles == {x \in HandleIterations : x.handle.gate \in {"shape", "old", "returned"}}

\* C20 as stated: a handle window is drift if and only if at least 60% of its
\* consecutive bars show a lower high or a lower low than the bar before.
C20_DriftAsClaimed ==
    pc = "detected" =>
        \A x \in ShapedHandles :
            LET a == x.cup.right_rim_idx
                b == x.handle.handle_end
            IN  (x.handle.handle_shape = "drift") <=>
                    5 * Cardinality(LowerHighSteps(a, b) \cup LowerLowSteps(a, b))
                        >= 3 * (b - a - 1)

\* C20, amended: a handle window is drift if and only if at least 60% of its
\* bar-to-bar steps show a lower high, or at least 60% of them show a lower
\* low.
C20_Drift ==
    pc = "detected" =>
        \A x \in ShapedHandles :
            LET a == x.cup.right_rim_idx
                b == x.handle.handle_end
            IN  (x.handle.handle_shape = "drift") <=>
                    \/ 5 * Cardinality(LowerHighSteps(a, b)) >= 3 * (b - a - 1)
                    \/ 5 * Cardinality(LowerLowSteps(a, b)) >= 3 * (b - a - 1)

\* A handle that is not drift although three of its four steps show a lower
\* high or a lower low.
C20_Witness ==
    /\ pc = "detected"
    /\ \E x \in ShapedHandles :
          LET a == x.cup.right_rim_idx
              b == x.handle.handle_end
          IN  /\ x.handle.handle_shape # "drift"
              /\ 5 * Cardinality(LowerHighSteps(a, b) \cup LowerLowSteps(a, b))
                   >= 3 * (b - a - 1)

\* ---------------------------------------------------------------------
\* StockScreener.screen_stocks (stock_screener.py) with the StockAnalyzer
\* helpers it calls (stock_analyzer.py).
\*
\* stock_data is a dict of frames keyed by symbol: dates holds the keys in
\* insertion order and closes, highs, lows and volumes map each key to the
\* frame's column.  A frame without a Volume column holds no volumes.  Prices
\* are integers in units of 1/199 of a dollar, the step of the test fixture's
\* linspace(100, 200, 200), and the closes hold no NaN.  A moving average is
\* kept as the sum of its window (150 times the average) and the comparisons
\* of check_sma_conditions are multiplied out accordingly; the frames below
\* keep every comparison either exactly equal on doubles or further apart
\* than the rounding of a double, and keep the average monotone over the
\* last 14 days, so that the sign of the summed differences is the sign
\* pandas computes.
\* ---------------------------------------------------------------------
MaxNewDays == 1

SmaWindow == 150
SlopeDays == 14
Dollar == 199

\* data.iloc[::-1]
Reversed(s) == [i \in 1..Len(s) |-> s[Len(s) + 1 - i]] \o <<>>

\* close_col.dropna().shape[0] >= window
validate_min_data(c) == Len(c) >= SmaWindow

\* sum(s[a:b]), summed by halves.
RECURSIVE WindowSum(_, _, _)
WindowSum(s, a, b) ==
    IF b <= a THEN 0
    ELSE IF b = a + 1 THEN s[a + 1]
    ELSE LET m == (a + b) \div 2
         IN  WindowSum(s, a, m) + WindowSum(s, m, b)

\* close_col.rolling(window).mean(): NaN (<<>>) for the first window-1 rows,
\* then <<sum of the window>>.
calculate_sma(c) ==
    [i \in 1..Len(c) |->
        IF i < SmaWindow THEN <<>> ELSE <<WindowSum(c, i - SmaWindow, i)>>] \o <<>>

\* Sum and count of the non-NaN entries of recent_sma.diff().
RECURSIVE DiffSum(_, _)
DiffSum(sma, i) ==
    IF i < 2 THEN [sum |-> 0, count |-> 0]
    ELSE LET r == DiffSum(sma, i - 1)
         IN  IF sma[i] = <<>> \/ sma[i - 1] = <<>> THEN r
             ELSE [sum |-> r.sum + sma[i][1] - sma[i - 1][1],
                   count |-> r.count + 1]

\* check_sma_conditions(data, tolerance = 0.04) on the reversed frame:
\* <<condition1 and condition2, last_close, last_sma>>.
check_sma_conditions(c, sma) ==
    LET last_close == c[1]
        last_sma == sma[1]
        condition1 == /\ last_sma # <<>>
                      /\ 4 * last_sma[1] <= 625 * last_close
                      /\ 1875 * last_close <= 13 * last_sma[1]
        d == DiffSum(sma, Min2(SlopeDays, Len(sma)))
        \* slope = -mean(diff), NaN when no difference is defined
        condition2 == d.count > 0 /\ -d.sum >= 0
    IN  <<condition1 /\ condition2, last_close, last_sma>>

\* calculate_atr(data, 14): the mean high-low range of the first 14 rows,
\* kept as their sum.
calculate_atr(h, l) ==
    LET n == Min2(SlopeDays, Len(h))
        ranges == [i \in 1..n |-> Abs(h[i] - l[i])]
    IN  WindowSum(ranges, 0, n)

EmptyResults ==
    [hot_stocks |-> <<>>, watch_list |-> <<>>,
     failed_tickers |-> <<>>, filtered_by_sma |-> <<>>,
     failure_reasons |-> <<>>]

\* failed_tickers.append(symbol); self.failure_reasons[symbol] = reason
Failed(res, symbol, reason) ==
    [res EXCEPT !.failed_tickers = Append(@, symbol),
                !.failure_reasons =
                    [s \in DOMAIN res.failure_reasons \cup {symbol} |->
                        IF s = symbol THEN reason ELSE res.failure_reasons[s]]]

\* The rest of an iteration of the loop of screen_stocks, after the check of
\* validate_min_data.
ScreenValid(res, symbol, c, h, l, v) ==
    LET sma == Reversed(calculate_sma(c))
        rc == Reversed(c)
        chk == check_sma_conditions(rc, sma)
    IN  IF chk[1]
        THEN IF Len(v) # Len(c)
             \* data["Volume"] raises KeyError, caught by the except
             THEN Failed(res, symbol, <<"Exception during screening", "Volume">>)
             ELSE LET stock_entry ==
                          [symbol |-> symbol,
                           last_close |-> chk[2],
                           sma150 |-> chk[3][1],
                           atr |-> calculate_atr(Reversed(h), Reversed(l)),
                           last_volume |-> Reversed(v)[1]]
                  IN  IF SmaWindow * chk[2] > chk[3][1]
                      THEN [res EXCEPT !.hot_stocks = Append(@, stock_entry)]
                      ELSE [res EXCEPT !.watch_list = Append(@, stock_entry)]
        ELSE [res EXCEPT !.filtered_by_sma = Append(@, symbol)]

\* Faulty variant: the branch for insufficient data does not continue with
\* the next symbol.
ScreenSymbolNoContinue(res, symbol, c, h, l, v) ==
    IF ~validate_min_data(c)
    THEN [Failed(res, symbol, <<"Insufficient data", Len(c)>>)
             EXCEPT !.filtered_by_sma = Append(@, symbol)]
    ELSE ScreenValid(res, symbol, c, h, l, v)

\* One iteration of the loop of screen_stocks over stock_data.items().
ScreenSymbol(res, symbol, c, h, l, v) ==
    IF ~validate_min_data(c)
    THEN Failed(res, symbol, <<"Insufficient data", Len(c)>>)
    ELSE ScreenValid(res, symbol, c, h, l, v)

RECURSIVE screen_stocks(_, _, _, _, _, _)
screen_stocks(keys, k, c, h, l, v) ==
    IF k = 0 THEN EmptyResults
    ELSE ScreenSymbol(screen_stocks(keys, k - 1, c, h, l, v),
                      keys[k], c[keys[k]], h[keys[k]], l[keys[k]], v[keys[k]])

\* ---- frames ----
Linear(n, start, step) == [i \in 1..n |-> start + step * (i - 1)]

Frame(c, with_volume) ==
    [Close |-> c,
     High |-> [i \in 1..Len(c) |-> c[i] + 2 * Dollar],
     Low |-> [i \in 1..Len(c) |-> c[i] - 2 * Dollar],
     Volume |-> IF with_volume THEN [i \in 1..Len(c) |-> 1000] ELSE <<>>]

\* tests/test_stock_screener.py: the fixture's frames (no Volume column).
FixtureUptrend == Frame(Linear(200, 100 * Dollar, 100), FALSE)
FixtureFlat == Frame(Linear(200, 100 * Dollar, 0), FALSE)
\* tests/test_stock_screener.py: the frame of INVALID, without rows.
FixtureInvalid == Frame(<<>>, FALSE)

Frames ==
    { FixtureUptrend, FixtureFlat, FixtureInvalid,
      Frame(Linear(200, 100 * Dollar, 100), TRUE),
      Frame(Linear(200, 100 * Dollar, 0), TRUE),
      Frame(Linear(149, 100 * Dollar, 0), TRUE),
      Frame(Linear(150, 100 * Dollar, 0), TRUE),
      Frame(Linear(160, 110 * Dollar, -10), TRUE),
      Frame(Linear(160, 100 * Dollar, 10), TRUE) }

ScreenSymbols == <<"UPTREND", "FLAT">>

CloseMoves == {0, 4 * Dollar, -4 * Dollar}

ScreenInit ==
    /\ dates = ScreenSymbols
    /\ \E fu \in Frames, ff \in Frames :
          LET f == [s \in {"UPTREND", "FLAT"} |->
                        IF s = "UPTREND" THEN fu ELSE ff]
          IN  /\ closes = [s \in DOMAIN f |-> f[s].Close]
              /\ highs = [s \in DOMAIN f |-> f[s].High]
              /\ lows = [s \in DOMAIN f |-> f[s].Low]
              /\ volumes = [s \in DOMAIN f |-> f[s].Volume]
    /\ opens = <<>>
    /\ atr = <<>>
    /\ patterns = EmptyResults
    /\ trace = <<>>
    /\ pc = "loaded"

\* A further trading day is appended to one symbol's frame.
NewDay(symbol, move) ==
    /\ pc \in {"loaded", "screened"}
    /\ Len(trace) < MaxNewDays
    /\ closes[symbol] # <<>>
    /\ LET c == closes[symbol][Len(closes[symbol])] + move
       IN  /\ closes' = [closes EXCEPT ![symbol] = Append(@, c)]
           /\ highs' = [highs EXCEPT ![symbol] = Append(@, c + 2 * Dollar)]
           /\ lows' = [lows EXCEPT ![symbol] = Append(@, c - 2 * Dollar)]
           /\ volumes' = [volumes EXCEPT ![symbol] =
                             IF Len(@) = Len(closes[symbol])
                             THEN Append(@, 1000) ELSE @]
    /\ trace' = Append(trace, <<symbol, move>>)
    /\ pc' = "loaded"
    /\ UNCHANGED <<opens, atr, dates, patterns>>

ScreenStocks ==
    /\ pc = "loaded"
    /\ patterns' = screen_stocks(dates, Len(dates), closes, highs, lows, volumes)
    /\ pc' = "screened"
    /\ UNCHANGED <<opens, highs, lows, closes, volumes, atr, dates, trace>>

ScreenNext ==
    \/ ScreenStocks
    \/ \E symbol \in {"UPTREND", "FLAT"}, move \in CloseMoves : NewDay(symbol, move)

ScreenSpec == ScreenInit /\ [][ScreenNext]_vars

\* ---- screening properties ----
SymbolsOf(entries) == {entries[i].symbol : i \in 1..Len(entries)}
Listed(list) == {list[i] : i \in 1..Len(list)}
LastClose(symbol) == closes[symbol][Len(closes[symbol])]
LastSmaSum(symbol) ==
    WindowSum(closes[symbol], Len(closes[symbol]) - SmaWindow, Len(closes[symbol]))

\* C19: screen_stocks puts a symbol with sufficient data in hot_stocks when
\* its last close is above its 150-day SMA and in watch_list when its last
\* close is at the SMA, and reports no such symbol as failed.
C19_Screening ==
    pc = "screened" =>
        \A symbol \in DOMAIN closes :
            validate_min_data(closes[symbol]) =>
                /\ symbol \notin Listed(patterns.failed_tickers)
                /\ SmaWindow * LastClose(symbol) > LastSmaSum(symbol)
                       => symbol \in SymbolsOf(patterns.hot_stocks)
                /\ SmaWindow * LastClose(symbol) = LastSmaSum(symbol)
                       => symbol \in SymbolsOf(patterns.watch_list)

\* The fixture of tests/test_stock_screener.py after screening.
C19_FixtureScreened ==
    /\ pc = "screened"
    /\ trace = <<>>
    /\ closes["UPTREND"] = FixtureUptrend.Close
    /\ volumes["UPTREND"] = <<>>
    /\ closes["FLAT"] = FixtureFlat.Close
    /\ volumes["FLAT"] = <<>>

(* ------------------------------------------------------------------ *)
(* Handle shape classification on its own                             *)
(* ------------------------------------------------------------------ *)

\* Longest handle window classified.
MaxHandle == 5

\* Bars of a handle window in dollars: <<high, low>>.
HandleBars == {<<100, 50>>, <<99, 50>>, <<98, 50>>, <<97, 50>>, <<76, 74>>}

\* Windows of 4 to MaxHandle bars.
HandleWindows == UNION {[1..n -> HandleBars] : n \in 4..MaxHandle}

ShapeInit ==
    /\ \E w \in HandleWindows :
          /\ highs = [i \in 1..Len(w) |-> w[i][1]]
          /\ lows = [i \in 1..Len(w) |-> w[i][2]]
          /\ closes = [i \in 1..Len(w) |-> w[i][2]]
    /\ opens = <<>>
    /\ volumes = <<>>
    /\ atr = <<>>
    /\ dates = <<>>
    /\ patterns = <<>>
    /\ trace = <<>>
    /\ pc = "window"

\* detect_handle_shape is called on the whole window.
ClassifyHandle ==
    /\ pc = "window"
    /\ patterns' = <<detect_handle_shape(highs, lows, 0, Len(highs))>>
    /\ pc' = "shaped"
    /\ UNCHANGED <<opens, highs, lows, closes, volumes, atr, dates, trace>>

ShapeNext == ClassifyHandle

ShapeSpec == ShapeInit /\ [][ShapeNext]_vars

\* The three tests on the window held in highs and lows.
DriftTest == detect_handle_downward_drift(highs, lows, 0, Len(highs)) = "drift"
FlagTest == detect_handle_flag(highs, lows, 0, Len(highs)) = "flag"
PennantTest == detect_handle_pennant(highs, lows, 0, Len(highs)) = "pennant"

\* C21: the shape reported is 'drift' whenever the drift test passes (also
\* when the flag or pennant test passes too), 'flag' when drift fails and
\* flag passes, 'pennant' when only the pennant test passes, and no shape
\* when none passes.
C21_ShapeOrder ==
    pc = "shaped" =>
        /\ DriftTest => patterns = <<"drift">>
        /\ ~DriftTest /\ FlagTest => patterns = <<"flag">>
        /\ ~DriftTest /\ ~FlagTest /\ PennantTest => patterns = <<"pennant">>
        /\ ~DriftTest /\ ~FlagTest /\ ~PennantTest => patterns = <<"none">>

\* A window that passes both the drift and the flag test was classified.
C21_Witness == pc = "shaped" /\ DriftTest /\ FlagTest /\ patterns = <<"drift">>

(* ------------------------------------------------------------------ *)
(* Cup and handle: further properties                                 *)
(* ------------------------------------------------------------------ *)

\* The highs from left + 1 through right (both inclusive) above 1.02 times
\* the high at left.
HighsAboveRim(left, right) ==
    {i \in (left + 1)..right : 100 * At(highs, i) > 102 * At(highs, left)}

\* The iterations of the bottom loop that found a right rim.
RimChecked ==
    {it \in CupIterations :
        it.gate \in {"rim_violation", "left_duration", "symmetry", "v_shape", "handle"}}

\* C22: a cup whose right rim was found is rejected for a rim violation
\* exactly when some high from left_rim + 1 through right_rim exceeds
\* left_rim_price * 1.02, and no returned record has such a high.
C22_RimViolation ==
    pc = "detected" =>
        /\ \A it \in RimChecked :
              (it.gate = "rim_violation")
                  <=> HighsAboveRim(it.left_rim_idx, it.right_rim_idx) # {}
        /\ patterns # <<>> =>
              HighsAboveRim(ReturnedIteration.cup.left_rim_idx,
                            ReturnedIteration.cup.right_rim_idx) = {}

\* A cup was rejected whose only high above the limit is its right rim.
C22_Witness ==
    /\ pc = "detected"
    /\ \E it \in RimChecked :
             /\ it.gate = "rim_violation"
             /\ HighsAboveRim(it.left_rim_idx, it.right_rim_idx) = {it.right_rim_idx}

(* ------------------------------------------------------------------ *)
(* detect_cup_formation                                               *)
(* ------------------------------------------------------------------ *)

\* The index of the first maximum of s[a:b], or a when the slice is empty
\* (the loop keeps the first strictly greater high).
FirstMaxIdx(s, a, b) ==
    IF b <= a THEN a
    ELSE CHOOSE i \in a..(b - 1) :
            /\ \A j \in a..(b - 1) : At(s, j) <= At(s, i)
            /\ \A j \in a..(i - 1) : At(s, j) < At(s, i)

\* The index of the first minimum of s[a:b] (the loop keeps the first
\* strictly lower low, starting from a).
FirstMinIdx(s, a, b) ==
    IF b <= a THEN a
    ELSE CHOOSE i \in a..(b - 1) :
            /\ \A j \in a..(b - 1) : At(s, j) >= At(s, i)
            /\ \A j \in a..(i - 1) : At(s, j) > At(s, i)

\* The cup found, once the rims and the bottom are known: None (<<>>) or the
\* dict returned.
FormedCup(h, l, left_rim_idx, cup_bottom_idx, right_rim_idx) ==
    IF right_rim_idx = -1 THEN <<>>
    ELSE IF DepthRejected(At(h, left_rim_idx), At(l, cup_bottom_idx)) THEN <<>>
    ELSE IF cup_bottom_idx - left_rim_idx = 0 THEN <<>>
    ELSE IF SymmetryRejected(cup_bottom_idx - left_rim_idx, right_rim_idx - cup_bottom_idx)
    THEN <<>>
    ELSE IF right_rim_idx - cup_bottom_idx < 5 THEN <<>>
    ELSE <<[left_rim_idx |-> left_rim_idx,
            left_rim_price |-> At(h, left_rim_idx),
            cup_bottom_idx |-> cup_bottom_idx,
            cup_bottom_price |-> At(l, cup_bottom_idx),
            right_rim_idx |-> right_rim_idx,
            right_rim_price |-> At(h, right_rim_idx),
            is_valid |-> TRUE]>>

\* The bottom and the right rim of the cup whose left rim is known.
CupAfterLeftRim(h, l, end_idx, left_rim_idx) ==
    IF \E i \in (left_rim_idx + 1)..(Min2(end_idx, Len(h)) - 1) :
           100 * At(h, i) > 102 * At(h, left_rim_idx)
    THEN <<>>
    ELSE FormedCup(h, l, left_rim_idx,
                   FirstMinIdx(l, left_rim_idx, Max2(left_rim_idx + 1, Min2(end_idx, Len(l)))),
                   RightRimSearch(h,
                       FirstMinIdx(l, left_rim_idx,
                                   Max2(left_rim_idx + 1, Min2(end_idx, Len(l)))) + 1,
                       Min2(end_idx + 1, Len(h)), At(h, left_rim_idx)).idx)

\* detect_cup_formation(highs, lows, closes, start_idx, end_idx).
detect_cup_formation(h, l, start_idx, end_idx) ==
    IF end_idx - start_idx < 30 THEN <<>>
    ELSE CupAfterLeftRim(h, l, end_idx,
             FirstMaxIdx(h, start_idx,
                         Min2(start_idx + (end_idx - start_idx) \div 3, Len(h))))

\* Longest series given to detect_cup_formation.
MaxFormLen == 32

FormBar(high, low) == [h |-> Dbl(high), l |-> Dbl(low)]

\* A series of n bars with a left rim of 100.0, a bottom bar and a right rim
\* bar, flat at 92.0 elsewhere.
FormSeries(n, left, bottom, bottom_low, right, right_high) ==
    [k \in 1..n |->
        LET i == k - 1
        IN  IF i = left THEN FormBar(1000, 990)
            ELSE IF i = bottom THEN FormBar(920, bottom_low)
            ELSE IF i = right THEN FormBar(right_high, 915)
            ELSE FormBar(920, 910)]

FormHistories ==
    {FormSeries(n, left, bottom, low, right, high) :
        n \in 30..MaxFormLen, left \in {0, 3}, bottom \in {8, 12, 15, 20},
        low \in {880, 885, 800, 650, 645}, right \in {24, 29, 30},
        high \in {1000, 1020, 1025, 1035}}

FormInit ==
    /\ \E s \in FormHistories :
          /\ highs = [i \in 1..Len(s) |-> s[i].h]
          /\ lows = [i \in 1..Len(s) |-> s[i].l]
          /\ closes = [i \in 1..Len(s) |-> s[i].l]
    /\ \E start_idx \in {0, 1} : trace = <<start_idx, 30>>
    /\ opens = <<>>
    /\ volumes = <<>>
    /\ atr = <<>>
    /\ dates = <<>>
    /\ patterns = <<>>
    /\ pc = "series"

\* detect_cup_formation is called on the series with the range held in trace.
FormCup ==
    /\ pc = "series"
    /\ patterns' = detect_cup_formation(highs, lows, trace[1], trace[2])
    /\ pc' = "formed"
    /\ UNCHANGED <<opens, highs, lows, closes, volumes, atr, dates, trace>>

FormNext == FormCup

FormSpec == FormInit /\ [][FormNext]_vars

\* C23: every cup returned by detect_cup_formation has a depth within
\* [12, 35]%, a ratio right_duration / left_duration within [0.5, 2.0], and
\* no high after the left rim up to and including the right rim above
\* left_rim_price * 1.02.
C23_ValidCup ==
    pc = "formed" /\ patterns # <<>> =>
        LET cup == patterns[1]
            left_duration == cup.cup_bottom_idx - cup.left_rim_idx
            right_duration == cup.right_rim_idx - cup.cup_bottom_idx
        IN  /\ 100 * (cup.left_rim_price - cup.cup_bottom_price) >= 12 * cup.left_rim_price
            /\ 100 * (cup.left_rim_price - cup.cup_bottom_price) <= 35 * cup.left_rim_price
            /\ left_duration > 0
            /\ 2 * right_duration >= left_duration
            /\ right_duration <= 2 * left_duration
            /\ HighsAboveRim(cup.left_rim_idx, cup.right_rim_idx) = {}

(* ------------------------------------------------------------------ *)
(* Cup and handle on shorter series                                   *)
(* ------------------------------------------------------------------ *)

\* Most bars missing from the front of a history.
MaxDrop == 36

\* Construction: a history without its first bars (the cup lies that much
\* earlier in the series), and its dates; nothing detected.
ShortInit ==
    \E history \in CupHistories, drop \in 0..MaxDrop :
        LET n == Len(history) - drop
        IN  /\ opens = [i \in 1..n |-> history[i + drop].o]
            /\ highs = [i \in 1..n |-> history[i + drop].h]
            /\ lows = [i \in 1..n |-> history[i + drop].l]
            /\ closes = [i \in 1..n |-> history[i + drop].c]
            /\ volumes = [i \in 1..n |-> history[i + drop].v]
            /\ atr = <<>>
            /\ dates = [i \in 1..n |-> DateOfDay(i - 1)]
            /\ pc = "ready"
            /\ patterns = <<>>
            /\ trace = <<>>

\* The first day's run on the series.
DetectFirst == pc = "ready" /\ DetectCup

ShortNext == DetectFirst

ShortSpec == ShortInit /\ [][ShortNext]_vars

\* C24: detect_cup_and_handle returns nothing for a series of fewer than 71
\* candles, and examines no candidate.
C24_NeedsSeventyOne ==
    pc = "detected" /\ Len(closes) < 71 => patterns = <<>> /\ trace = <<>>

\* A series of 70 candles was searched that holds a left rim, a 20% deep
\* bottom 15 bars later and a right rim 15 bars after it.
C24_Witness ==
    /\ pc = "detected"
    /\ Len(closes) = 70
    /\ \E left \in 30..35 :
          /\ At(highs, left) = Dbl(1000)
          /\ At(lows, left + 15) = Dbl(800)
          /\ At(highs, left + 30) = Dbl(1000)

\* C25: every record returned by detect_cup_and_handle has days_ago between
\* 0 and 6, whether its status is 'confirmed' or 'forming'.
C25_DaysAgoRange ==
    pc = "detected" =>
        \A k \in 1..Len(patterns) :
            /\ patterns[k].status \in {"confirmed", "forming"}
            /\ patterns[k].days_ago >= 0
            /\ patterns[k].days_ago <= 6

\* C26: the cup_bottom_price of a returned record is the lowest low of the
\* bars from the left rim through the right rim, and depth_percent is the
\* depth of that low below the rim.
C26_TrueBottom ==
    pc = "detected" /\ patterns # <<>> =>
        LET it == ReturnedIteration.cup
            lowest == MinOfSlice(lows, it.left_rim_idx, it.right_rim_idx + 1)
        IN  /\ patterns[1].cup_bottom_price = Cents(lowest)
            /\ patterns[1].depth_percent
                 = RoundHalfEven(10000 * (Tenths(At(highs, it.left_rim_idx)) - Tenths(lowest)),
                                 Tenths(At(highs, it.left_rim_idx)))

\* C27: in a returned pattern the left rim is before the cup bottom, the
\* right rim is at least 5 bars after the bottom and at most at index
\* len - 6, the handle starts at the right rim (handle_start_date is
\* cup_end_date, the date of the right rim), the handle end is from 5 to 25
\* bars after the right rim and at most len, and a breakout is at or after
\* the handle end.
C27_IndexOrder ==
    pc = "detected" /\ patterns # <<>> =>
        LET it == ReturnedIteration.cup
            hit == ReturnedIteration.handle
        IN  /\ it.left_rim_idx < it.cup_bottom_idx
            /\ it.cup_bottom_idx + 5 <= it.right_rim_idx
            /\ it.right_rim_idx <= Len(closes) - 6
            /\ patterns[1].cup_start_date = dates[it.left_rim_idx + 1]
            /\ patterns[1].cup_end_date = dates[it.right_rim_idx + 1]
            /\ patterns[1].handle_start_date = patterns[1].cup_end_date
            /\ patterns[1].handle_low = Cents(MinOfSlice(lows, it.right_rim_idx, hit.handle_end))
            /\ it.right_rim_idx + 5 <= hit.handle_end
            /\ hit.handle_end <= Min2(it.right_rim_idx + 25, Len(closes))
            /\ hit.breakout_idx # <<>> => hit.breakout_idx[1] >= hit.handle_end
            /\ patterns[1].breakout_date
                 = IF hit.breakout_idx = <<>> THEN <<>> ELSE dates[hit.breakout_idx[1] + 1]

\* A pattern was returned whose right rim is at index len - 6 and whose
\* breakout is the bar at its handle end.
C27_Witness ==
    /\ pc = "detected"
    /\ patterns # <<>>
    /\ ReturnedIteration.cup.right_rim_idx = Len(closes) - 6
    /\ ReturnedIteration.handle.breakout_idx = <<ReturnedIteration.handle.handle_end>>


(* ------------------------------------------------------------------ *)
(* The scanner on a series that grows                                 *)
(* ------------------------------------------------------------------ *)

\* Longest series the caller scans while the series grows.
MaxGrow == 10

\* The bars a day can bring to the growing series.
GrowBars == {HammerBar, StarBar, SmallBear, BigBull, UpBar, BigBear}

\* The history the growing series starts with.
GrowHistory == <<Flat, Flat>> \o History

\* Construction: the history, an ATR of 5.0 and the dates; nothing scanned.
GrowInit ==
    /\ opens = [i \in 1..Len(GrowHistory) |-> GrowHistory[i].o]
    /\ highs = [i \in 1..Len(GrowHistory) |-> GrowHistory[i].h]
    /\ lows = [i \in 1..Len(GrowHistory) |-> GrowHistory[i].l]
    /\ closes = [i \in 1..Len(GrowHistory) |-> GrowHistory[i].c]
    /\ volumes = [i \in 1..Len(GrowHistory) |-> GrowHistory[i].v]
    /\ atr = <<Dbl(50)>>
    /\ dates = [i \in 1..Len(GrowHistory) |-> DateOfBar(i - 1)]
    /\ pc = "ready"
    /\ patterns = <<>>
    /\ trace = <<>>

\* A day's bar arrives in the lists; the result of the last scan is kept.
GrowBar ==
    /\ Len(opens) < MaxGrow
    /\ \E bar \in GrowBars :
        /\ opens' = Append(opens, bar.o)
        /\ highs' = Append(highs, bar.h)
        /\ lows' = Append(lows, bar.l)
        /\ closes' = Append(closes, bar.c)
        /\ volumes' = Append(volumes, bar.v)
    /\ dates' = Append(dates, DateOfBar(Len(dates)))
    /\ pc' = "grown"
    /\ UNCHANGED <<atr, patterns, trace>>

\* scan_patterns_last_7days is called on the grown lists with the same ATR.
GrowScan ==
    /\ pc = "grown"
    /\ \E r \in {scan_patterns_last_7days(opens, highs, lows, closes, volumes, atr, dates)} :
        /\ pc' = IF r.raised THEN "raised" ELSE "scanned"
        /\ patterns' = r.patterns
        /\ trace' = r.trace
    /\ UNCHANGED <<opens, highs, lows, closes, volumes, atr, dates>>

GrowNext == GrowBar \/ GrowScan

GrowSpec == GrowInit /\ [][GrowNext]_vars

\* The iteration of a scan at index i, and the indices a scan evaluated.
IterationAt(its, i) == CHOOSE k \in 1..Len(its) : its[k].idx = i
ScannedBy(its) == {its[k].idx : k \in 1..Len(its)}

\* pattern, signal, confidence and status of the record a scan kept at the
\* index of an iteration: <<>> when it kept none.
Kept(it) ==
    IF it.appended = <<>> THEN <<>>
    ELSE <<it.appended[1].pattern, it.appended[1].signal,
           it.appended[1].confidence, it.appended[1].status>>

\* C28: when a series already scanned is scanned again after further bars
\* were appended, with the same ATR, every index scanned both times other
\* than the last index of the shorter series keeps its record with the same
\* pattern, signal, confidence and status (so a 'pending' record with a next
\* bar present neither becomes 'confirmed' nor disappears), and the record at
\* the last index of the shorter series keeps pattern, signal and confidence
\* and is 'pending' before and 'pending' or 'confirmed' after.
C28_Stable ==
    [][pc = "grown" /\ pc' = "scanned" /\ trace # <<>> =>
          \A i \in ScannedBy(trace) \cap ScannedBy(trace') :
              LET old == trace[IterationAt(trace, i)]
                  new == trace'[IterationAt(trace', i)]
              IN  IF i < trace[Len(trace)].idx
                  THEN Kept(new) = Kept(old)
                  ELSE /\ (Kept(old) = <<>>) = (Kept(new) = <<>>)
                       /\ Kept(old) # <<>> =>
                            /\ SubSeq(Kept(new), 1, 3) = SubSeq(Kept(old), 1, 3)
                            /\ Kept(old)[4] = "pending"
                            /\ Kept(new)[4] \in {"pending", "confirmed"}]_vars

\* A series scanned before its last bar arrived, about to be scanned again:
\* the earlier scan kept a 'pending' record whose next bar was present and
\* that is still in the window, and a record at its last index that the new
\* bar confirms.
C28_Witness ==
    /\ pc = "grown"
    /\ trace # <<>>
    /\ trace[Len(trace)].idx = Len(closes) - 2
    /\ Kept(trace[Len(trace)]) # <<>>
    /\ Confirms(Kept(trace[Len(trace)])[2], Len(closes) - 2)
    /\ \E k \in 1..(Len(trace) - 1) :
          /\ trace[k].idx >= StartIdx(opens)
          /\ Kept(trace[k]) # <<>>
          /\ Kept(trace[k])[4] = "pending"

\* A call returned a pattern.
Fires(call) == call # NoPattern /\ call # Raised

\* C29: at an index where Bullish Engulfing fires, none of Bearish Engulfing,
\* Evening Star, Three White Soldiers and Three Black Crows fires; the
\* pattern detected there is Bullish Engulfing or Morning Star, and the
\* record kept for the index has signal 'bullish'.
C29_BullishEngulfingKept ==
    \A it \in Iterations :
        Fires(it.calls[3]) =>
            /\ \A k \in {4, 6, 7, 8} : ~Fires(it.calls[k])
            /\ it.detected = (IF Fires(it.calls[5]) THEN it.calls[5] ELSE it.calls[3])
            /\ it.detected.pattern \in {"bullish_engulfing", "morning_star"}
            /\ it.detected.signal = "bullish"
            /\ \A k \in 1..Len(it.appended) : it.appended[k].signal = "bullish"
            /\ pc = "done" => \A k \in RecordsOf(it) : patterns[k].signal = "bullish"

\* A scan in which Morning Star overwrote a Bullish Engulfing and the record
\* was kept.
C29_Witness ==
    /\ pc = "done"
    /\ \E it \in Iterations :
          /\ Fires(it.calls[3]) /\ Fires(it.calls[5])
          /\ it.appended # <<>> /\ it.appended[1].pattern = "morning_star"
          /\ \E k \in RecordsOf(it) : patterns[k].signal = "bullish"

\* How often symbol is listed in a list of symbols.
Occurrences(list, symbol) == Cardinality({i \in 1..Len(list) : list[i] = symbol})

\* The symbols of a dict of entries, in the order of insertion.
KeysOf(entries) == [i \in 1..Len(entries) |-> entries[i].symbol]

\* calculate_volume_metrics raises for the symbol: its conditions are met
\* and its frame has no Volume column.
ScreeningRaises(symbol) ==
    /\ validate_min_data(closes[symbol])
    /\ check_sma_conditions(Reversed(closes[symbol]),
                            Reversed(calculate_sma(closes[symbol])))[1]
    /\ Len(volumes[symbol]) # Len(closes[symbol])

\* C30: after screen_stocks every input symbol is listed exactly once, in
\* exactly one of hot_stocks, watch_list, failed_tickers and filtered_by_sma;
\* a symbol with fewer than 150 closing prices or whose screening raised is
\* in failed_tickers, and failure_reasons holds its reason.
C30_Partition ==
    pc = "screened" =>
        \A symbol \in Listed(dates) :
            /\ Occurrences(KeysOf(patterns.hot_stocks), symbol)
                 + Occurrences(KeysOf(patterns.watch_list), symbol)
                 + Occurrences(patterns.failed_tickers, symbol)
                 + Occurrences(patterns.filtered_by_sma, symbol) = 1
            /\ ~validate_min_data(closes[symbol]) =>
                  /\ symbol \in Listed(patterns.failed_tickers)
                  /\ symbol \in DOMAIN patterns.failure_reasons
                  /\ patterns.failure_reasons[symbol]
                       = <<"Insufficient data", Len(closes[symbol])>>
            /\ ScreeningRaises(symbol) =>
                  /\ symbol \in Listed(patterns.failed_tickers)
                  /\ symbol \in DOMAIN patterns.failure_reasons
                  /\ patterns.failure_reasons[symbol][1] = "Exception during screening"

\* A screening with a symbol that has fewer than 150 closes and a symbol
\* whose screening raised.
C30_Witness ==
    /\ pc = "screened"
    /\ \E symbol \in Listed(dates) : ~validate_min_data(closes[symbol])
    /\ \E symbol \in Listed(dates) : ScreeningRaises(symbol)

====
